---- MODULE Spec2Model ----
(***************************************************************************)
(* SCUnit: the suite/test registry (suite.c, scunit.c), the per-test       *)
(* context (context.c) and the scheduler that runs the registered suites   *)
(* (scunit_executeSuites, scunit_suite_run).                               *)
(***************************************************************************)
EXTENDS Integers, Sequences, FiniteSets, TLC

\* ------------------------------------------------------------------ bounds
\* at most this many registrations (of suites, tests and hooks together) succeed
MaxRegs == 4
\* at most this many calls of executeSuites in one process
MaxRuns == 2
\* the seeds 0..MaxSeed (and 42) are given to the generator
MaxSeed == 1
\* INITIAL_BUFFER_SIZE of print.c (128 there), scaled down
INITIAL_BUFFER_SIZE == 4
\* the longest text formatted into a buffer; longer than INITIAL_BUFFER_SIZE
MaxText == 5
\* the monotonic clock of a caller of the timer runs from 0 to MaxClock seconds
MaxClock == 3
\* a caller of the generator draws at most MaxDraws values between two seedings
MaxDraws == 2
\* the files a file context is read from have at most MaxFile characters
MaxFile == 3
\* bytes of the context's message buffer (INITIAL_BUFFER_SIZE, scaled down)
CtxBufSize == 3

\* ------------------------------------------------------- program constants
EXIT_SUCCESS == 0
EXIT_FAILURE == 1

SCUNIT_RESULT_PASS == 0
SCUNIT_RESULT_SKIP == 1
SCUNIT_RESULT_FAIL == 2

SCUNIT_ORDER_SEQUENTIAL == 0
SCUNIT_ORDER_RANDOM == 1

GROWTH_FACTOR == 2

\* SCUnitError values (error.h)
SCUNIT_ERROR_NONE == 0
SCUNIT_ERROR_ARGUMENT_OUT_OF_RANGE == 2
SCUNIT_ERROR_OUT_OF_MEMORY == 3
SCUNIT_ERROR_OPENING_STREAM_FAILED == 4
SCUNIT_ERROR_READING_STREAM_FAILED == 5
SCUNIT_ERROR_CLOSING_STREAM_FAILED == 8
SCUNIT_ERROR_TIMER_FAILED == 9
SCUNIT_ERROR_TIMER_RUNNING == 10
SCUNIT_ERROR_TIMER_NOT_RUNNING == 11
SCUNIT_ERROR_UNKNOWN_RESULT == 12

\* the null function pointer / null pointer
nullptr == 0

\* callables a caller may pass as a hook: nullptr or one function
HookFns == {nullptr, 1}

\* ------------------------------------------------------------------- state
VARIABLES
    suites,          \* scunit.c `suites[0 .. registeredSuites-1]`, each an SCUnitSuite
    capacity,        \* scunit.c `capacity`
    order,           \* scunit.c `config.order`
    error,           \* the SCUnitError most recently returned to / held by the caller
    pc,              \* position of the process
    suiteIndices,    \* executeSuites: the execution order (0-based suite indices)
    i,               \* executeSuites: loop index over suiteIndices
    failedSuites,    \* executeSuites: local counter
    summary,         \* executeSuites: run-level SCUnitSummary
    timer,           \* executeSuites: run-level timer
    exitCode,        \* value returned by executeSuites or passed to exit()
    cur,             \* suite_run: 0-based index of the suite being run
    ti,              \* suite_run: loop index over the tests
    suiteSummary,    \* suite_run: `*summary`
    suiteTimer,      \* suite_run: timer of the suite
    testTimer,       \* suite_run: timer of the tests
    context,         \* suite_run: the recycled SCUnitContext
    hookRegs,        \* history: number of hook registration calls made so far
    log,             \* history: the callables invoked, in order
    testState,       \* history: per suite and test, Pending/Running/Passed/Skipped/Failed
    suiteSummaries,  \* history: the summary each executed suite returned
    random,          \* scunit.c `random`: the one SCUnitRandom (seed and state[4])
    fresh,           \* history: `random` was seeded and not used since
    runs,            \* history: the calls of executeSuites, each with what it executed
    hookHistory,     \* history: per suite and hook kind, the callables registered, in order
    buffer,          \* a caller of print.c: its `char* buffer` (the block it points to)
    size,            \* a caller of print.c: its `int64_t size`
    currentColoredOutput,  \* print.c `currentColoredOutput`
    call,            \* history: the last call of a buffer writer, its arguments and result
    prev,            \* history: the call before the last
    tm,              \* a caller of timer.c: its SCUnitTimer (isRunning and the four times)
    clock,           \* CLOCK_MONOTONIC and CLOCK_PROCESS_CPUTIME_ID, in seconds
    timerCall,       \* history: the last call on tm, the flag before it, what it returned
    gens,            \* two callers of random.c: each its SCUnitRandom and the draws it made
    cx,              \* a caller of context.c: its SCUnitContext (result, size, message)
    cxCall           \* history: the last call on cx, the context before it, what it returned

randVars == <<random, fresh, runs>>
hookVars == <<hookHistory>>
printVars == <<buffer, size, currentColoredOutput, call, prev>>
timerVars == <<tm, clock, timerCall>>
callerVars == <<gens, cx, cxCall>>

\* the state outside the registry and the scheduler
auxVars == <<randVars, hookVars, printVars, timerVars, callerVars>>
\* the state a run driven by the generator leaves alone
notRandVars == <<hookVars, printVars, timerVars, callerVars>>
\* the state the registration of hooks leaves alone
notHookVars == <<randVars, printVars, timerVars, callerVars>>

vars == <<suites, capacity, order, error, pc, suiteIndices, i, failedSuites, summary, timer,
          exitCode, cur, ti, suiteSummary, suiteTimer, testTimer, context, hookRegs, log,
          testState, suiteSummaries, auxVars>>

regVars == <<suites, capacity, order, hookRegs>>
execVars == <<suiteIndices, i, failedSuites, summary, timer, exitCode>>
runVars == <<cur, ti, suiteSummary, suiteTimer, testTimer, context>>
histVars == <<log, testState, suiteSummaries>>
\* the state a caller of the buffer writers leaves alone
notPrintVars ==
    <<regVars, error, pc, execVars, runVars, histVars, randVars, hookVars, timerVars,
      callerVars>>
\* the state a caller of the timer leaves alone
notTimerVars ==
    <<regVars, error, pc, execVars, runVars, histVars, randVars, hookVars, printVars,
      callerVars>>
\* the state the callers of the library functions leave alone
notCallerVars ==
    <<regVars, error, pc, execVars, runVars, histVars, randVars, hookVars, printVars,
      timerVars>>

\* ----------------------------------------------------------------- helpers
registeredSuites == Len(suites)

registeredTests(suite) == Len(suite.tests)

RECURSIVE SumTests(_)
SumTests(ss) == IF ss = <<>> THEN 0 ELSE Len(Head(ss).tests) + SumTests(Tail(ss))

\* the number of registrations that succeeded so far
Registrations == registeredSuites + SumTests(suites) + hookRegs

ZeroSummary == [passedTests |-> 0, skippedTests |-> 0, failedTests |-> 0]

\* SCUnitTimer: allocated or not, running or not
NoTimer == [allocated |-> FALSE, isRunning |-> FALSE]

\* scunit_timer_new: calloc'ed, so not running
scunit_timer_new == [allocated |-> TRUE, isRunning |-> FALSE]

\* faulty variant: a running timer is started again
scunit_timer_start_Again(t, clockOk) ==
    IF ~clockOk THEN [err |-> SCUNIT_ERROR_TIMER_FAILED, timer |-> t]
    ELSE [err |-> SCUNIT_ERROR_NONE, timer |-> [t EXCEPT !.isRunning = TRUE]]

\* scunit_timer_start: result code and timer; clockOk tells whether clock_gettime succeeds
scunit_timer_start(t, clockOk) ==
    IF t.isRunning THEN [err |-> SCUNIT_ERROR_TIMER_RUNNING, timer |-> t]
    ELSE IF ~clockOk THEN [err |-> SCUNIT_ERROR_TIMER_FAILED, timer |-> t]
    ELSE [err |-> SCUNIT_ERROR_NONE, timer |-> [t EXCEPT !.isRunning = TRUE]]

\* faulty variant: the timer is stopped but still marked as running
scunit_timer_stop_StillRunning(t, clockOk) ==
    IF ~t.isRunning THEN [err |-> SCUNIT_ERROR_TIMER_NOT_RUNNING, timer |-> t]
    ELSE IF ~clockOk THEN [err |-> SCUNIT_ERROR_TIMER_FAILED, timer |-> t]
    ELSE [err |-> SCUNIT_ERROR_NONE, timer |-> t]

\* scunit_timer_stop
scunit_timer_stop(t, clockOk) ==
    IF ~t.isRunning THEN [err |-> SCUNIT_ERROR_TIMER_NOT_RUNNING, timer |-> t]
    ELSE IF ~clockOk THEN [err |-> SCUNIT_ERROR_TIMER_FAILED, timer |-> t]
    ELSE [err |-> SCUNIT_ERROR_NONE, timer |-> [t EXCEPT !.isRunning = FALSE]]

\* ----------------------------------------------------------------- context
\* The message is a byte buffer holding a null-terminated string.
NoContext == [allocated |-> FALSE, result |-> SCUNIT_RESULT_PASS, message |-> <<>>]

\* scunit_context_new: result Pass, calloc'ed (all zero) message buffer
scunit_context_new ==
    [allocated |-> TRUE, result |-> SCUNIT_RESULT_PASS, message |-> [k \in 1..CtxBufSize |-> 0]]

\* strlen of the buffer: number of bytes before the first null byte
StrLen(buf) ==
    IF \E k \in 1..Len(buf) : buf[k] = 0
    THEN (CHOOSE k \in 1..Len(buf) : buf[k] = 0 /\ \A j \in 1..(k-1) : buf[j] # 0) - 1
    ELSE Len(buf)

\* the string a reader of the buffer sees (scunit_context_getMessage)
scunit_context_getMessage(ctx) == SubSeq(ctx.message, 1, StrLen(ctx.message))

\* faulty variant: the reset restores the result and leaves the message alone
scunit_context_reset_ResultOnly(ctx) == [ctx EXCEPT !.result = SCUNIT_RESULT_PASS]

\* scunit_context_reset: result Pass, first byte of the message set to null
scunit_context_reset(ctx) ==
    [ctx EXCEPT !.result = SCUNIT_RESULT_PASS, !.message[1] = 0]

\* faulty variant: any value is accepted as a result
scunit_context_setResult_Unchecked(ctx, result) ==
    [err |-> SCUNIT_ERROR_NONE, ctx |-> [ctx EXCEPT !.result = result]]

\* faulty variant: the result is stored before it is checked
scunit_context_setResult_StoreFirst(ctx, result) ==
    [err |-> IF (result < SCUNIT_RESULT_PASS) \/ (result > SCUNIT_RESULT_FAIL)
             THEN SCUNIT_ERROR_ARGUMENT_OUT_OF_RANGE ELSE SCUNIT_ERROR_NONE,
     ctx |-> [ctx EXCEPT !.result = result]]

\* scunit_context_setResult: rejects values outside Pass..Fail
scunit_context_setResult(ctx, result) ==
    IF (result < SCUNIT_RESULT_PASS) \/ (result > SCUNIT_RESULT_FAIL)
    THEN [err |-> SCUNIT_ERROR_ARGUMENT_OUT_OF_RANGE, ctx |-> ctx]
    ELSE [err |-> SCUNIT_ERROR_NONE, ctx |-> [ctx EXCEPT !.result = result]]

\* scunit_context_appendMessage for a text that fits the buffer: written at the
\* current terminator, followed by a new terminator
scunit_context_appendMessage(ctx, text) ==
    LET at == StrLen(ctx.message)
    IN  [ctx EXCEPT !.message =
            [k \in 1..Len(ctx.message) |->
                IF k <= at THEN ctx.message[k]
                ELSE IF k <= at + Len(text) THEN text[k - at]
                ELSE IF k = at + Len(text) + 1 THEN 0
                ELSE ctx.message[k]]]

\* ------------------------------------------------- random.c: uint64_t values
\* A uint64_t is the sequence of its 8 bytes, least significant first; all arithmetic is
\* modulo 2^64 as in C. U64(n) is the uint64_t of a number n < 2^24.
U64(n) == <<n % 256, (n \div 256) % 256, (n \div 65536) % 256, 0, 0, 0, 0, 0>>

\* the uint64_t whose byte k (1-based) is f[k]
Bytes(f) == <<f[1], f[2], f[3], f[4], f[5], f[6], f[7], f[8]>>

\* byte k (0-based) of x, 0 beyond either end
ByteAt(x, k) == IF k >= 0 /\ k <= 7 THEN x[k + 1] ELSE 0

\* a ^ b on bytes
RECURSIVE XorByte(_, _)
XorByte(a, b) ==
    IF a = 0 THEN b
    ELSE IF b = 0 THEN a
    ELSE 2 * XorByte(a \div 2, b \div 2) + ((a + b) % 2)

\* x ^ y
Xor64(x, y) == Bytes([k \in 1..8 |-> XorByte(x[k], y[k])])

\* carry into byte k (1-based) of x + y
RECURSIVE AddCarry(_, _, _)
AddCarry(x, y, k) ==
    IF k = 1 THEN 0 ELSE (x[k - 1] + y[k - 1] + AddCarry(x, y, k - 1)) \div 256

\* x + y
Add64(x, y) == Bytes([k \in 1..8 |-> (x[k] + y[k] + AddCarry(x, y, k)) % 256])

\* the sum of the byte products that land in byte k (1-based) of x * y
RECURSIVE MulColumn(_, _, _, _)
MulColumn(x, y, k, a) ==
    IF a > k THEN 0 ELSE x[a] * y[k + 1 - a] + MulColumn(x, y, k, a + 1)

\* byte k of x * y together with the carry out of it
RECURSIVE MulAcc(_, _, _)
MulAcc(x, y, k) ==
    IF k = 0 THEN 0 ELSE MulColumn(x, y, k, 1) + (MulAcc(x, y, k - 1) \div 256)

\* x * y
Mul64(x, y) == Bytes([k \in 1..8 |-> MulAcc(x, y, k) % 256])

\* x >> n, 0 <= n < 64
Shr64(x, n) ==
    LET q == n \div 8
        r == n % 8
    IN  Bytes([k \in 1..8 |->
            (ByteAt(x, k - 1 + q) \div (2 ^ r))
            + (ByteAt(x, k + q) % (2 ^ r)) * (2 ^ (8 - r))])

\* x << n, 0 <= n < 64
Shl64(x, n) ==
    LET q == n \div 8
        r == n % 8
    IN  Bytes([k \in 1..8 |->
            ((ByteAt(x, k - 1 - q) * (2 ^ r)) % 256)
            + (ByteAt(x, k - 2 - q) \div (2 ^ (8 - r)))])

\* x | y for values with no bit in common
Or64(x, y) == Bytes([k \in 1..8 |-> x[k] + y[k]])

\* rotateLeft(value, bits)
rotateLeft(value, bits) == Or64(Shl64(value, bits), Shr64(value, 64 - bits))

\* 0x9E3779B97F4A7C15, 0xBF58476D1CE4E5B9, 0x94D049BB133111EB
SeedIncrement == <<21, 124, 74, 127, 185, 121, 55, 158>>
SeedMultiplier1 == <<185, 229, 228, 28, 109, 71, 88, 191>>
SeedMultiplier2 == <<235, 17, 49, 19, 187, 73, 208, 148>>

\* one round of the loop of scunit_random_setSeed: the state word made from the
\* incremented seed
SeedWord(seed) ==
    LET r1 == Mul64(Xor64(seed, Shr64(seed, 30)), SeedMultiplier1)
        r2 == Mul64(Xor64(r1, Shr64(r1, 27)), SeedMultiplier2)
    IN  Xor64(r2, Shr64(r2, 31))

\* the loop of scunit_random_setSeed: the four state words made from the seed
SeedState(seed) ==
    LET s1 == Add64(seed, SeedIncrement)
        s2 == Add64(s1, SeedIncrement)
        s3 == Add64(s2, SeedIncrement)
        s4 == Add64(s3, SeedIncrement)
    IN  <<SeedWord(s1), SeedWord(s2), SeedWord(s3), SeedWord(s4)>>

\* faulty variant: a generator that has a state keeps it, only the seed is replaced
scunit_random_setSeed_KeepState(rnd, seed) ==
    IF rnd.state = <<>> THEN [seed |-> seed, state |-> SeedState(seed)]
    ELSE [rnd EXCEPT !.seed = seed]

\* faulty variant: the new seed is stored, the state is made from the seed held before
scunit_random_setSeed_OldSeed(rnd, seed) == [seed |-> seed, state |-> SeedState(rnd.seed)]

\* scunit_random_setSeed: the seed is kept, the state made from it
scunit_random_setSeed(rnd, seed) == [seed |-> seed, state |-> SeedState(seed)]

\* next(random): the state advanced, and the 53 bits (result >> 11) of which the double
\* returned is the 2^53-th part
next(rnd) ==
    LET s == rnd.state
        result == Mul64(rotateLeft(Mul64(s[2], U64(5)), 7), U64(9))
        temp == Shl64(s[2], 17)
        t2 == Xor64(s[3], s[1])
        t3 == Xor64(s[4], s[2])
        t1 == Xor64(s[2], t2)
        t0 == Xor64(s[1], t3)
    IN  [bits |-> Shr64(result, 11),
         random |-> [rnd EXCEPT !.state = <<t0, t1, Xor64(t2, temp), rotateLeft(t3, 45)>>]]

\* number of significant bits of a byte / of a uint64_t
RECURSIVE BitLenByte(_)
BitLenByte(b) == IF b = 0 THEN 0 ELSE 1 + BitLenByte(b \div 2)

BitLen64(x) ==
    IF \A k \in 1..8 : x[k] = 0 THEN 0
    ELSE LET top == CHOOSE k \in 1..8 : x[k] # 0 /\ \A j \in (k + 1)..8 : x[j] = 0
         IN  8 * (top - 1) + BitLenByte(x[top])

\* (int64_t) (fraction * range) for the double fraction = bits / 2^53 and 1 <= range < 2^11:
\* the product is rounded to the 53 significant bits of a double (to nearest, ties to even)
\* and truncated
ScaleToRange(bits, range) ==
    LET p == Mul64(bits, U64(range))
        d == IF BitLen64(p) > 53 THEN BitLen64(p) - 53 ELSE 0
        low == (p[1] + 256 * p[2]) % (2 ^ d)
        keep == Shr64(p, d)
        up == d > 0 /\ (2 * low > 2 ^ d \/ (2 * low = 2 ^ d /\ keep[1] % 2 = 1))
        rounded == Shl64(IF up THEN Add64(keep, U64(1)) ELSE keep, d)
        whole == Shr64(rounded, 53)
    IN  whole[1] + 256 * whole[2]

\* scunit_random_int64(random, min, max): the value returned and the generator advanced
scunit_random_int64(rnd, min, max) ==
    LET n == next(rnd)
    IN  [value |-> min + ScaleToRange(n.bits, max - min + 1), random |-> n.random]

\* the generator before scunit_random_new
NoRandom == [seed |-> U64(0), state |-> <<>>]

\* ------------------------------------------------ print.c: the buffer writers
\* A buffer is the block a `char*` points to: ptr is nullptr or 1 (some block) and mem the
\* bytes of the block. A byte is a character, NUL, or "?" where realloc left the memory
\* uninitialised. A formatted text is the sequence of its characters.
SCUNIT_COLORED_OUTPUT_DISABLED == 0
SCUNIT_COLORED_OUTPUT_ENABLED == 1
SCUNIT_COLOR_DARK_BLACK == 0
SCUNIT_COLOR_DARK_RED == 1
SCUNIT_COLOR_DARK_CYAN == 6
SCUNIT_COLOR_DARK_DEFAULT == 8
SCUNIT_COLOR_BRIGHT_DEFAULT == 17
NUL == "NUL"
NullBuffer == [ptr |-> nullptr, mem |-> <<>>]
NoCall == [op |-> "none"]

\* the decimal digits printf writes for %d of n >= 0
RECURSIVE Digits(_)
Digits(n) ==
    LET digit == <<"0", "1", "2", "3", "4", "5", "6", "7", "8", "9">>[(n % 10) + 1]
    IN  IF n < 10 THEN <<digit>> ELSE Append(Digits(n \div 10), digit)

\* FOREGROUND_COLORS[color] and BACKGROUND_COLORS[color]
FOREGROUND_COLORS(color) ==
    IF color < SCUNIT_COLOR_DARK_DEFAULT THEN 30 + color
    ELSE IF color = SCUNIT_COLOR_DARK_DEFAULT THEN 39
    ELSE IF color < SCUNIT_COLOR_BRIGHT_DEFAULT THEN 90 + (color - SCUNIT_COLOR_DARK_DEFAULT - 1)
    ELSE 99

BACKGROUND_COLORS(color) == FOREGROUND_COLORS(color) + 10

\* COLOR_START formatted with the numbers of the two colors, and COLOR_RESET
COLOR_START(foreground, background) ==
    <<"ESC", "[">> \o Digits(FOREGROUND_COLORS(foreground)) \o <<";">>
        \o Digits(BACKGROUND_COLORS(background)) \o <<"m">>

COLOR_RESET == <<"ESC", "[", "0", "m">>

isValidColor(color) ==
    (color >= SCUNIT_COLOR_DARK_BLACK) /\ (color <= SCUNIT_COLOR_BRIGHT_DEFAULT)

\* faulty variant: only a negative size is rejected
ValidPair_SizeOnly(buf, sz) == sz >= 0

\* !((*size < 0) || ((*buffer == nullptr) != (*size == 0)))
ValidPair(buf, sz) == (sz >= 0) /\ ((buf.ptr = nullptr) = (sz = 0))

\* faulty variant: the buffer is resized to the required size itself
Grown_Exact(newSize, requiredSize) == requiredSize

\* newSize *= GROWTH_FACTOR while newSize < requiredSize
RECURSIVE Grown(_, _)
Grown(newSize, requiredSize) ==
    IF newSize < requiredSize THEN Grown(newSize * GROWTH_FACTOR, requiredSize) ELSE newSize

\* SCUNIT_REALLOC(*buffer, newSize) that succeeds: the old bytes, then uninitialised ones
Realloc(buf, newSize) ==
    [ptr |-> 1, mem |-> [k \in 1..newSize |-> IF k <= Len(buf.mem) THEN buf.mem[k] ELSE "?"]]

\* ensureSize(buffer, size, requiredSize, error), reallocOk telling whether realloc succeeds
ensureSize(buf, sz, requiredSize, reallocOk) ==
    IF (requiredSize < 0) \/ ~ValidPair(buf, sz)
    THEN [buffer |-> buf, size |-> sz, error |-> SCUNIT_ERROR_ARGUMENT_OUT_OF_RANGE]
    ELSE IF sz < requiredSize
    THEN LET newSize == Grown(IF sz = 0 THEN 1 ELSE sz, requiredSize)
         IN  IF ~reallocOk
             THEN [buffer |-> buf, size |-> sz, error |-> SCUNIT_ERROR_OUT_OF_MEMORY]
             ELSE [buffer |-> Realloc(buf, newSize), size |-> newSize,
                   error |-> SCUNIT_ERROR_NONE]
    ELSE [buffer |-> buf, size |-> sz, error |-> SCUNIT_ERROR_NONE]

\* faulty variant: the length is taken to be 0 whatever the buffer holds
strnlen_Zero(mem, n) == 0

\* strnlen(*buffer, *size)
strnlen(mem, n) ==
    IF \E k \in 1..n : mem[k] = NUL
    THEN (CHOOSE k \in 1..n : mem[k] = NUL /\ \A j \in 1..(k - 1) : mem[j] # NUL) - 1
    ELSE n

\* faulty variant: the characters are written without the terminating null byte
vsnprintf_NoTerminator(mem, offset, n, text) ==
    [k \in 1..Len(mem) |->
        IF k > offset /\ k <= offset + Len(text) /\ k < offset + n THEN text[k - offset]
        ELSE mem[k]]

\* vsnprintf(*buffer + offset, n, format, args): at most n - 1 characters of the text and a
\* terminating null byte
vsnprintf(mem, offset, n, text) ==
    LET written == IF Len(text) < n THEN Len(text) ELSE n - 1
    IN  [k \in 1..Len(mem) |->
            IF n <= 0 THEN mem[k]
            ELSE IF k > offset /\ k <= offset + written THEN text[k - offset]
            ELSE IF k = offset + written + 1 THEN NUL
            ELSE mem[k]]

\* one `ensureSize(buffer, size, offset + length + 1, &error)` and the snprintf after it, in
\* a call that has not returned yet
WriteAt(st, text, reallocOk) ==
    IF st.error # SCUNIT_ERROR_NONE THEN st
    ELSE LET e == ensureSize(st.buffer, st.size, st.offset + Len(text) + 1, reallocOk)
         IN  IF e.error # SCUNIT_ERROR_NONE THEN [st EXCEPT !.error = e.error]
             ELSE [buffer |-> [e.buffer EXCEPT !.mem =
                                  vsnprintf(@, st.offset, e.size - st.offset, text)],
                   size |-> e.size, error |-> SCUNIT_ERROR_NONE,
                   offset |-> st.offset + Len(text)]

\* the body the four buffer writers share: the check of the pair, the allocation of a
\* buffer that is nullptr, the offset (the end of the string when appending), COLOR_START
\* when `colored`, the text, COLOR_RESET when `colored`. `failing` names the ensureSize of
\* the call whose realloc fails.
Format(buf, sz, appending, colored, start, text, failing) ==
    IF ~ValidPair(buf, sz)
    THEN [buffer |-> buf, size |-> sz, error |-> SCUNIT_ERROR_ARGUMENT_OUT_OF_RANGE]
    ELSE LET e == ensureSize(buf, sz, INITIAL_BUFFER_SIZE, failing # "init")
             s1 == IF buf.ptr # nullptr
                   THEN [buffer |-> buf, size |-> sz, error |-> SCUNIT_ERROR_NONE, offset |-> 0]
                   ELSE IF e.error # SCUNIT_ERROR_NONE
                   THEN [buffer |-> e.buffer, size |-> e.size, error |-> e.error, offset |-> 0]
                   ELSE [buffer |-> [e.buffer EXCEPT !.mem[1] = NUL], size |-> e.size,
                         error |-> SCUNIT_ERROR_NONE, offset |-> 0]
             s2 == IF appending /\ s1.error = SCUNIT_ERROR_NONE
                   THEN [s1 EXCEPT !.offset = strnlen(s1.buffer.mem, s1.size)] ELSE s1
             s3 == IF colored THEN WriteAt(s2, start, failing # "start") ELSE s2
             s4 == WriteAt(s3, text, failing # "text")
             s5 == IF colored THEN WriteAt(s4, COLOR_RESET, failing # "reset") ELSE s4
         IN  [buffer |-> s5.buffer, size |-> s5.size, error |-> s5.error]

\* scunit_vrsnprintf(buffer, size, format, args)
scunit_vrsnprintf(buf, sz, text, failing) == Format(buf, sz, FALSE, FALSE, <<>>, text, failing)

\* scunit_vrasnprintf(buffer, size, format, args)
scunit_vrasnprintf(buf, sz, text, failing) == Format(buf, sz, TRUE, FALSE, <<>>, text, failing)

\* faulty variant: the colors are written whatever currentColoredOutput is
scunit_vrsnprintfc_AlwaysColored(buf, sz, colors, text, failing, enabled) ==
    IF ~isValidColor(colors[1]) \/ ~isValidColor(colors[2])
    THEN [buffer |-> buf, size |-> sz, error |-> SCUNIT_ERROR_ARGUMENT_OUT_OF_RANGE]
    ELSE Format(buf, sz, FALSE, TRUE, COLOR_START(colors[1], colors[2]), text, failing)

\* scunit_vrsnprintfc(buffer, size, foreground, background, format, args), `enabled` being
\* currentColoredOutput == SCUNIT_COLORED_OUTPUT_ENABLED
scunit_vrsnprintfc(buf, sz, colors, text, failing, enabled) ==
    IF ~isValidColor(colors[1]) \/ ~isValidColor(colors[2])
    THEN [buffer |-> buf, size |-> sz, error |-> SCUNIT_ERROR_ARGUMENT_OUT_OF_RANGE]
    ELSE Format(buf, sz, FALSE, enabled, COLOR_START(colors[1], colors[2]), text, failing)

\* scunit_vrasnprintfc(buffer, size, foreground, background, format, args)
scunit_vrasnprintfc(buf, sz, colors, text, failing, enabled) ==
    IF ~isValidColor(colors[1]) \/ ~isValidColor(colors[2])
    THEN [buffer |-> buf, size |-> sz, error |-> SCUNIT_ERROR_ARGUMENT_OUT_OF_RANGE]
    ELSE Format(buf, sz, TRUE, enabled, COLOR_START(colors[1], colors[2]), text, failing)

\* -------------------------------------------------------------------- init
\* the registry and the scheduler of a process that has registered nothing yet
InitCore ==
    /\ suites = <<>>
    /\ capacity = 0
    /\ order = SCUNIT_ORDER_SEQUENTIAL
    /\ error = SCUNIT_ERROR_NONE
    /\ pc = "idle"
    /\ suiteIndices = <<>>
    /\ i = 0
    /\ failedSuites = 0
    /\ summary = ZeroSummary
    /\ timer = NoTimer
    /\ exitCode = EXIT_SUCCESS
    /\ cur = 0
    /\ ti = 0
    /\ suiteSummary = ZeroSummary
    /\ suiteTimer = NoTimer
    /\ testTimer = NoTimer
    /\ context = NoContext
    /\ hookRegs = 0
    /\ log = <<>>
    /\ testState = <<>>
    /\ suiteSummaries = <<>>

\* the generator is left out of the runs of this specification: the shuffle of ExecBegin
\* draws every index the generator could return
RandomUnused ==
    /\ random = NoRandom
    /\ fresh = FALSE
    /\ runs = <<>>

HooksUnused == hookHistory = <<>>

PrintUnused ==
    /\ buffer = NullBuffer
    /\ size = 0
    /\ currentColoredOutput = SCUNIT_COLORED_OUTPUT_ENABLED
    /\ call = NoCall
    /\ prev = NoCall

TimerUnused ==
    /\ tm = NoTimer
    /\ clock = [wall |-> 0, cpu |-> 0]
    /\ timerCall = NoCall

\* the callers of random.c before they have a generator, the caller of context.c before
\* it has a context
CallersUnused ==
    /\ gens = [g \in 1..2 |-> [rnd |-> NoRandom, calls |-> <<>>, earlier |-> FALSE,
                               error |-> SCUNIT_ERROR_NONE]]
    /\ cx = [result |-> SCUNIT_RESULT_PASS, size |-> 0, message |-> NullBuffer]
    /\ cxCall = NoCall

Init ==
    /\ InitCore
    /\ RandomUnused
    /\ HooksUnused
    /\ PrintUnused
    /\ TimerUnused
    /\ CallersUnused

\* ------------------------------------------------------------ registration
\* scunit_suite_new: a suite with a name, no hooks, no tests (calloc'ed)
scunit_suite_new(name) ==
    [name |-> name, setup |-> nullptr, teardown |-> nullptr, testSetup |-> nullptr,
     testTeardown |-> nullptr, tests |-> <<>>, capacity |-> 0]

\* faulty variant: the suite is stored in the last occupied slot, suites[registeredSuites - 1]
scunit_registerSuite_LastSlot(reallocOk) ==
    /\ pc = "idle"
    /\ Registrations < MaxRegs
    /\ IF registeredSuites >= capacity /\ ~reallocOk
       THEN /\ error' = SCUNIT_ERROR_OUT_OF_MEMORY
            /\ UNCHANGED <<suites, capacity>>
       ELSE /\ capacity' = IF registeredSuites >= capacity
                           THEN (IF capacity = 0 THEN 1 ELSE capacity * GROWTH_FACTOR)
                           ELSE capacity
            /\ suites' = IF suites = <<>> THEN <<scunit_suite_new(1)>>
                          ELSE [suites EXCEPT ![registeredSuites] =
                                   scunit_suite_new(registeredSuites + 1)]
            /\ error' = SCUNIT_ERROR_NONE
    /\ UNCHANGED <<order, hookRegs, pc, execVars, runVars, histVars>>

\* faulty variant: the registry grows only when it is more than full
scunit_registerSuite_GrowLate(reallocOk) ==
    /\ pc = "idle"
    /\ Registrations < MaxRegs
    /\ IF registeredSuites > capacity /\ ~reallocOk
       THEN /\ error' = SCUNIT_ERROR_OUT_OF_MEMORY
            /\ UNCHANGED <<suites, capacity>>
       ELSE /\ capacity' = IF registeredSuites > capacity
                           THEN (IF capacity = 0 THEN 1 ELSE capacity * GROWTH_FACTOR)
                           ELSE capacity
            /\ suites' = Append(suites, scunit_suite_new(registeredSuites + 1))
            /\ error' = SCUNIT_ERROR_NONE
    /\ UNCHANGED <<order, hookRegs, pc, execVars, runVars, histVars>>

\* scunit_registerSuite(suite), with a new suite named after its registration number
scunit_registerSuite(reallocOk) ==
    /\ pc = "idle"
    /\ Registrations < MaxRegs
    /\ IF registeredSuites >= capacity /\ ~reallocOk
       THEN /\ error' = SCUNIT_ERROR_OUT_OF_MEMORY
            /\ UNCHANGED <<suites, capacity>>
       ELSE /\ capacity' = IF registeredSuites >= capacity
                           THEN (IF capacity = 0 THEN 1 ELSE capacity * GROWTH_FACTOR)
                           ELSE capacity
            /\ suites' = Append(suites, scunit_suite_new(registeredSuites + 1))
            /\ error' = SCUNIT_ERROR_NONE
    /\ UNCHANGED <<order, hookRegs, pc, execVars, runVars, histVars>>

\* faulty variant: the new capacity without the one added for a capacity of zero
scunit_suite_registerTest_NoPlusOne(s, reallocOk, strdupOk) ==
    /\ pc = "idle"
    /\ s \in 1..registeredSuites
    /\ Registrations < MaxRegs
    /\ LET suite == suites[s]
           full == registeredTests(suite) >= suite.capacity
           newCapacity == suite.capacity * GROWTH_FACTOR
           grown == IF full THEN [suite EXCEPT !.capacity = newCapacity] ELSE suite
           name == registeredTests(suite) + 1
       IN  IF full /\ ~reallocOk
           THEN /\ error' = SCUNIT_ERROR_OUT_OF_MEMORY
                /\ UNCHANGED suites
           ELSE IF ~strdupOk
           THEN /\ error' = SCUNIT_ERROR_OUT_OF_MEMORY
                /\ suites' = [suites EXCEPT ![s] = grown]
           ELSE /\ error' = SCUNIT_ERROR_NONE
                /\ suites' = [suites EXCEPT ![s] =
                       [grown EXCEPT !.tests =
                           Append(grown.tests, [name |-> name, testFunction |-> name])]]
    /\ UNCHANGED <<capacity, order, hookRegs, pc, execVars, runVars, histVars>>

\* faulty variant: the slot is taken before the name is copied
scunit_suite_registerTest_SlotFirst(s, reallocOk, strdupOk) ==
    /\ pc = "idle"
    /\ s \in 1..registeredSuites
    /\ Registrations < MaxRegs
    /\ LET suite == suites[s]
           full == registeredTests(suite) >= suite.capacity
           newCapacity == (suite.capacity * GROWTH_FACTOR) + 1
           grown == IF full THEN [suite EXCEPT !.capacity = newCapacity] ELSE suite
           name == registeredTests(suite) + 1
       IN  IF full /\ ~reallocOk
           THEN /\ error' = SCUNIT_ERROR_OUT_OF_MEMORY
                /\ UNCHANGED suites
           ELSE /\ error' = IF strdupOk THEN SCUNIT_ERROR_NONE ELSE SCUNIT_ERROR_OUT_OF_MEMORY
                /\ suites' = [suites EXCEPT ![s] =
                       [grown EXCEPT !.tests =
                           Append(grown.tests, [name |-> IF strdupOk THEN name ELSE nullptr,
                                                testFunction |-> name])]]
    /\ UNCHANGED <<capacity, order, hookRegs, pc, execVars, runVars, histVars>>

\* scunit_suite_registerTest(suite, name, testFunction) on suite number s (1-based), with a
\* test named after its registration number in that suite
scunit_suite_registerTest(s, reallocOk, strdupOk) ==
    /\ pc = "idle"
    /\ s \in 1..registeredSuites
    /\ Registrations < MaxRegs
    /\ LET suite == suites[s]
           full == registeredTests(suite) >= suite.capacity
           newCapacity == (suite.capacity * GROWTH_FACTOR) + 1
           grown == IF full THEN [suite EXCEPT !.capacity = newCapacity] ELSE suite
           name == registeredTests(suite) + 1
       IN  IF full /\ ~reallocOk
           THEN /\ error' = SCUNIT_ERROR_OUT_OF_MEMORY
                /\ UNCHANGED suites
           ELSE IF ~strdupOk
           THEN /\ error' = SCUNIT_ERROR_OUT_OF_MEMORY
                /\ suites' = [suites EXCEPT ![s] = grown]
           ELSE /\ error' = SCUNIT_ERROR_NONE
                /\ suites' = [suites EXCEPT ![s] =
                       [grown EXCEPT !.tests =
                           Append(grown.tests, [name |-> name, testFunction |-> name])]]
    /\ UNCHANGED <<capacity, order, hookRegs, pc, execVars, runVars, histVars>>

\* faulty variant: a setup function that is registered stays, a later call is ignored
scunit_suite_registerSetup_KeepFirst(s, f) ==
    /\ pc = "idle"
    /\ s \in 1..registeredSuites
    /\ Registrations < MaxRegs
    /\ suites' = IF suites[s].setup = nullptr THEN [suites EXCEPT ![s].setup = f] ELSE suites
    /\ hookRegs' = hookRegs + 1
    /\ error' = SCUNIT_ERROR_NONE
    /\ UNCHANGED <<capacity, order, pc, execVars, runVars, histVars>>

\* scunit_suite_registerSetup(suite, setup)
scunit_suite_registerSetup(s, f) ==
    /\ pc = "idle"
    /\ s \in 1..registeredSuites
    /\ Registrations < MaxRegs
    /\ suites' = [suites EXCEPT ![s].setup = f]
    /\ hookRegs' = hookRegs + 1
    /\ error' = SCUNIT_ERROR_NONE
    /\ UNCHANGED <<capacity, order, pc, execVars, runVars, histVars>>

\* scunit_suite_registerTeardown(suite, teardown)
scunit_suite_registerTeardown(s, f) ==
    /\ pc = "idle"
    /\ s \in 1..registeredSuites
    /\ Registrations < MaxRegs
    /\ suites' = [suites EXCEPT ![s].teardown = f]
    /\ hookRegs' = hookRegs + 1
    /\ error' = SCUNIT_ERROR_NONE
    /\ UNCHANGED <<capacity, order, pc, execVars, runVars, histVars>>

\* scunit_suite_registerTestSetup(suite, testSetup)
scunit_suite_registerTestSetup(s, f) ==
    /\ pc = "idle"
    /\ s \in 1..registeredSuites
    /\ Registrations < MaxRegs
    /\ suites' = [suites EXCEPT ![s].testSetup = f]
    /\ hookRegs' = hookRegs + 1
    /\ error' = SCUNIT_ERROR_NONE
    /\ UNCHANGED <<capacity, order, pc, execVars, runVars, histVars>>

\* scunit_suite_setTestTeardown(suite, testTeardown)
scunit_suite_setTestTeardown(s, f) ==
    /\ pc = "idle"
    /\ s \in 1..registeredSuites
    /\ Registrations < MaxRegs
    /\ suites' = [suites EXCEPT ![s].testTeardown = f]
    /\ hookRegs' = hookRegs + 1
    /\ error' = SCUNIT_ERROR_NONE
    /\ UNCHANGED <<capacity, order, pc, execVars, runVars, histVars>>

\* scunit_setOrder(order)
scunit_setOrder(o) ==
    /\ pc = "idle"
    /\ IF (o < SCUNIT_ORDER_SEQUENTIAL) \/ (o > SCUNIT_ORDER_RANDOM)
       THEN /\ error' = SCUNIT_ERROR_ARGUMENT_OUT_OF_RANGE
            /\ UNCHANGED order
       ELSE /\ order' = o
            /\ error' = SCUNIT_ERROR_NONE
    /\ UNCHANGED <<suites, capacity, hookRegs, pc, execVars, runVars, histVars>>

\* ------------------------------------------------------ scunit_executeSuites
\* the set of possible draw sequences of the shuffle: draws[k] is the value
\* scunit_random_int64(random, 0, k) returns, which lies in 0..k
DrawSeqs(n) == {d \in [1..(n - 1) -> 0..(n - 1)] : \A k \in 1..(n - 1) : d[k] <= k}

\* faulty variant: the indices initialised in ascending order
ReversedIndices_Ascending(n) == [k \in 1..n |-> k - 1]

\* suiteIndices[k] = registeredSuites - 1 - k; position k of the C array is element k+1
ReversedIndices(n) == [k \in 1..n |-> n - 1 - (k - 1)]

\* faulty variant: the swap without the temporary, suiteIndices[j] keeps its value
Swap_NoTemp(idx, a, b) == [idx EXCEPT ![a + 1] = idx[b + 1]]

\* temp = suiteIndices[i]; suiteIndices[i] = suiteIndices[j]; suiteIndices[j] = temp;
Swap(idx, a, b) == [idx EXCEPT ![a + 1] = idx[b + 1], ![b + 1] = idx[a + 1]]

\* for (i = registeredSuites - 1; i > 0; i--) swap(suiteIndices[i], suiteIndices[j])
RECURSIVE FisherYates(_, _, _)
FisherYates(idx, k, draws) ==
    IF k <= 0 THEN idx ELSE FisherYates(Swap(idx, k, draws[k]), k - 1, draws)

\* `SCUnitSummary suiteSummary;` of a suite that suite_run has not filled in
NoSummary == [executed |-> FALSE]

PendingTests == [s \in 1..registeredSuites |-> [t \in 1..registeredTests(suites[s]) |-> "Pending"]]

\* scunit_executeSuites up to the loop over the suites: allocation of the indices, their
\* initialisation and shuffle, the run-level timer
ExecBegin(mallocOk, timerNewOk, clockOk, draws) ==
    /\ pc = "idle"
    /\ log' = <<>>
    /\ testState' = PendingTests
    /\ suiteSummaries' = [s \in 1..registeredSuites |-> NoSummary]
    /\ i' = 0
    /\ failedSuites' = 0
    /\ summary' = ZeroSummary
    /\ IF registeredSuites > 0 /\ ~mallocOk
       THEN /\ pc' = "exited"
            /\ exitCode' = EXIT_FAILURE
            /\ error' = SCUNIT_ERROR_OUT_OF_MEMORY
            /\ UNCHANGED <<suiteIndices, timer>>
       ELSE /\ suiteIndices' = IF order = SCUNIT_ORDER_RANDOM
                               THEN FisherYates(ReversedIndices(registeredSuites),
                                                registeredSuites - 1, draws)
                               ELSE ReversedIndices(registeredSuites)
            /\ IF ~timerNewOk
               THEN /\ pc' = "exited"
                    /\ exitCode' = EXIT_FAILURE
                    /\ error' = SCUNIT_ERROR_OUT_OF_MEMORY
                    /\ UNCHANGED timer
               ELSE LET started == scunit_timer_start(scunit_timer_new, clockOk)
                    IN  /\ error' = started.err
                        /\ IF started.err # SCUNIT_ERROR_NONE
                           THEN /\ pc' = "exited"
                                /\ exitCode' = EXIT_FAILURE
                                /\ timer' = NoTimer
                           ELSE /\ pc' = "suiteLoop"
                                /\ exitCode' = EXIT_SUCCESS
                                /\ timer' = started.timer
    /\ UNCHANGED <<regVars, runVars>>

\* ---------------------------------------------------------- scunit_suite_run
Event(kind, suite, test, fn) == [kind |-> kind, suite |-> suite, test |-> test, fn |-> fn]

\* the suite executeSuites runs in iteration i
CurrentSuite == suites[cur + 1]

\* scunit_printf("--- Suite %s ---"): the first thing suite_run does
PrintSuiteHeader(l, suite) == Append(l, Event("suiteHeader", suite.name, 0, nullptr))

\* faulty variant: the run of a suite begins with the setup of every registered suite
CallSetup_EverySuite(l, suite) ==
    l \o SelectSeq([s \in 1..registeredSuites |-> Event("setup", s, 0, suites[s].setup)],
                   LAMBDA e : e.fn # nullptr)

\* if (suite->setup != nullptr) suite->setup();
CallSetup(l, suite) ==
    IF suite.setup # nullptr THEN Append(l, Event("setup", suite.name, 0, suite.setup)) ELSE l

\* faulty variant: the suite teardown is invoked only for a suite that has tests
CallTeardown_OnlyWithTests(l, suite) ==
    IF suite.teardown # nullptr /\ registeredTests(suite) > 0
    THEN Append(l, Event("teardown", suite.name, 0, suite.teardown)) ELSE l

\* if (suite->teardown != nullptr) suite->teardown();
CallTeardown(l, suite) ==
    IF suite.teardown # nullptr
    THEN Append(l, Event("teardown", suite.name, 0, suite.teardown)) ELSE l

\* if (suite->testSetup != nullptr) suite->testSetup();
CallTestSetup(l, suite, test) ==
    IF suite.testSetup # nullptr
    THEN Append(l, Event("testSetup", suite.name, test.name, suite.testSetup)) ELSE l

\* faulty variant: the test teardown is invoked after the first test of a suite only
CallTestTeardown_Once(l, suite, test) ==
    IF /\ suite.testTeardown # nullptr
       /\ ~\E k \in 1..Len(l) : l[k].kind = "testTeardown" /\ l[k].suite = suite.name
    THEN Append(l, Event("testTeardown", suite.name, test.name, suite.testTeardown)) ELSE l

\* if (suite->testTeardown != nullptr) suite->testTeardown();
CallTestTeardown(l, suite, test) ==
    IF suite.testTeardown # nullptr
    THEN Append(l, Event("testTeardown", suite.name, test.name, suite.testTeardown)) ELSE l

\* faulty variant: the tests indexed by the loop counter itself
TestPosition_Ascending(suite, k) == k

\* faulty variant: every iteration runs the test registered first
TestPosition_First(suite, k) == 0

\* the test suite_run runs in iteration ti: tests[registeredTests - 1 - ti]
TestPosition(suite, k) == registeredTests(suite) - 1 - k

CurrentTest == CurrentSuite.tests[TestPosition(CurrentSuite, ti) + 1]

\* the first n of scunit_timer_new(&suiteTimer), scunit_timer_new(&testTimer) and
\* scunit_context_new(&context) have succeeded
Acquired(l, suite, n) ==
    l \o [k \in 1..n |-> Event("new", suite.name, 0, <<"suiteTimer", "testTimer", "context">>[k])]

\* fail: scunit_timer_free(&suiteTimer); scunit_timer_free(&testTimer);
\* scunit_context_free(&context); with each pointer "valid" (allocated), "null" (its allocation
\* failed: nothing is freed) or "uninit" (not assigned before the goto)
Fail(l, suite, ptrs) ==
    LET freed(k) ==
            IF ptrs[k] = "null" THEN <<>>
            ELSE <<Event(IF ptrs[k] = "valid" THEN "free" ELSE "freeUninitialised",
                         suite.name, 0, <<"suiteTimer", "testTimer", "context">>[k])>>
    IN  l \o freed(1) \o freed(2) \o freed(3)

\* executeSuites: loop guard and call of suite_run; suite_run up to the loop over the tests:
\* the two timers and the context are created, the suite timer started, the suite setup invoked.
\* A failure before the test timer or the context was assigned reaches `fail`, which frees them
\* uninitialised: the build may return the error or crash.
SuiteRunBegin(suiteTimerOk, testTimerOk, contextOk, clockOk, crash) ==
    /\ pc = "suiteLoop"
    /\ i < registeredSuites
    /\ cur' = suiteIndices[i + 1]
    /\ ti' = 0
    /\ suiteSummary' = ZeroSummary
    /\ LET suite == suites[suiteIndices[i + 1] + 1]
           started == scunit_timer_start(scunit_timer_new, clockOk)
           header == PrintSuiteHeader(log, suite)
       IN  IF ~suiteTimerOk \/ ~testTimerOk
           THEN /\ pc' = IF crash THEN "crashed" ELSE "suiteReturned"
                /\ error' = SCUNIT_ERROR_OUT_OF_MEMORY
                /\ log' = IF ~suiteTimerOk
                          THEN Fail(header, suite, <<"null", "uninit", "uninit">>)
                          ELSE Fail(Acquired(header, suite, 1), suite,
                                    <<"valid", "null", "uninit">>)
                /\ UNCHANGED <<suiteTimer, testTimer, context>>
           ELSE IF ~contextOk
           THEN /\ pc' = "suiteReturned"
                /\ error' = SCUNIT_ERROR_OUT_OF_MEMORY
                /\ log' = Fail(Acquired(header, suite, 2), suite, <<"valid", "valid", "null">>)
                /\ UNCHANGED <<suiteTimer, testTimer, context>>
           ELSE IF started.err # SCUNIT_ERROR_NONE
           THEN /\ pc' = "suiteReturned"
                /\ error' = started.err
                /\ log' = Fail(Acquired(header, suite, 3), suite, <<"valid", "valid", "valid">>)
                /\ UNCHANGED <<suiteTimer, testTimer, context>>
           ELSE /\ pc' = "testLoop"
                /\ error' = SCUNIT_ERROR_NONE
                /\ suiteTimer' = started.timer
                /\ testTimer' = scunit_timer_new
                /\ context' = scunit_context_new
                /\ log' = CallSetup(Acquired(header, suite, 3), suite)
    /\ UNCHANGED <<regVars, suiteIndices, i, failedSuites, summary, timer, exitCode,
                   testState, suiteSummaries>>

\* one iteration of the loop over the tests up to the call of the test function: the test
\* setup is invoked, the context reset, the test timer started
TestBegin(clockOk) ==
    /\ pc = "testLoop"
    /\ ti < registeredTests(CurrentSuite)
    /\ LET suite == CurrentSuite
           test == CurrentTest
           started == scunit_timer_start(testTimer, clockOk)
       IN  /\ log' = IF started.err # SCUNIT_ERROR_NONE
                     THEN Fail(CallTestSetup(log, suite, test), suite,
                               <<"valid", "valid", "valid">>)
                     ELSE CallTestSetup(log, suite, test)
           /\ error' = started.err
           /\ IF started.err # SCUNIT_ERROR_NONE
              THEN /\ pc' = "suiteReturned"
                   /\ suiteTimer' = NoTimer
                   /\ testTimer' = NoTimer
                   /\ context' = NoContext
                   /\ UNCHANGED testState
              ELSE /\ pc' = "testCall"
                   /\ testTimer' = started.timer
                   /\ context' = scunit_context_reset(context)
                   /\ testState' = [testState EXCEPT
                          ![cur + 1][TestPosition(suite, ti) + 1] = "Running"]
                   /\ UNCHANGED suiteTimer
    /\ UNCHANGED <<regVars, execVars, cur, ti, suiteSummary, suiteSummaries>>

\* what a test function may do with its context (assert.h): return without touching it, skip
\* with a message, fail an assertion (message, then result Fail), or fail to write the message,
\* on which the macros call exit(EXIT_FAILURE); besides, it may call scunit_context_setResult
\* itself with a value that is not a result
TestBehaviours == {"pass", "skip", "fail", "writeError", "badResult"}

SkipText == <<2>>
FailText == <<1, 1>>

\* SCUNIT_SKIP(message): the message is appended, the result set, the test returns
SCUNIT_SKIP(ctx) ==
    scunit_context_setResult(scunit_context_appendMessage(ctx, SkipText), SCUNIT_RESULT_SKIP).ctx

\* SCUNIT_ASSERT(false): the message is appended, the result set, the test returns
SCUNIT_ASSERT(ctx) ==
    scunit_context_setResult(scunit_context_appendMessage(ctx, FailText), SCUNIT_RESULT_FAIL).ctx

\* test->testFunction(context)
TestFunction(b) ==
    /\ pc = "testCall"
    /\ log' = Append(log, Event("test", CurrentSuite.name, CurrentTest.name,
                                CurrentTest.testFunction))
    /\ IF b = "writeError"
       THEN /\ pc' = "exited"
            /\ exitCode' = EXIT_FAILURE
            /\ UNCHANGED context
       ELSE /\ pc' = "testReturned"
            /\ context' = CASE b = "pass" -> context
                            [] b = "skip" -> SCUNIT_SKIP(context)
                            [] b = "fail" -> SCUNIT_ASSERT(context)
                            [] b = "badResult" ->
                                   scunit_context_setResult(context, SCUNIT_RESULT_FAIL + 1).ctx
            /\ UNCHANGED exitCode
    /\ UNCHANGED <<regVars, suiteIndices, i, failedSuites, summary, timer, error, cur, ti,
                   suiteSummary, suiteTimer, testTimer, testState, suiteSummaries>>

\* faulty variant: the switch has no case for Fail
KnownResult_FailUnknown(result) == result \in {SCUNIT_RESULT_PASS, SCUNIT_RESULT_SKIP}

\* the cases of `switch (result)` other than `default`
KnownResult(result) ==
    result \in {SCUNIT_RESULT_PASS, SCUNIT_RESULT_SKIP, SCUNIT_RESULT_FAIL}

\* faulty variant: a skipped test is counted nowhere
Count_SkipDropped(s, result) ==
    CASE result = SCUNIT_RESULT_PASS -> [s EXCEPT !.passedTests = @ + 1]
      [] result = SCUNIT_RESULT_FAIL -> [s EXCEPT !.failedTests = @ + 1]
      [] OTHER -> s

\* the counter a result is counted in
Count(s, result) ==
    CASE result = SCUNIT_RESULT_PASS -> [s EXCEPT !.passedTests = @ + 1]
      [] result = SCUNIT_RESULT_SKIP -> [s EXCEPT !.skippedTests = @ + 1]
      [] result = SCUNIT_RESULT_FAIL -> [s EXCEPT !.failedTests = @ + 1]
      [] OTHER -> s

\* the status line of a test: its tag (printed in the switch that counts the test), its
\* timings and its message; `summary` holds the counters as they are when the line is complete
PrintStatus(l, suite, test, result, counted) ==
    Append(l, [kind |-> "status", suite |-> suite.name, test |-> test.name, fn |-> nullptr,
               result |-> result, summary |-> counted])

\* faulty variant: the test teardown is invoked before the status line is printed
FinishTest_TeardownFirst(l, suite, test, result, counted) ==
    PrintStatus(CallTestTeardown(l, suite, test), suite, test, result, counted)

\* the end of an iteration of the loop over the tests: the status line is printed, then
\* if (suite->testTeardown != nullptr) suite->testTeardown();
FinishTest(l, suite, test, result, counted) ==
    CallTestTeardown(PrintStatus(l, suite, test, result, counted), suite, test)

\* faulty variant: the quotient is computed whatever the total; 0.0 / 0 is NaN, written -1
Percentage_Unguarded(part, total) ==
    IF total = 0 THEN -1 ELSE (2 * 10000 * part + total) \div (2 * total)

\* (total > 0) ? (((double) part) / total) * 100.0 : 0.0, as "%.2F" prints it: in hundredths
\* of a percent, rounded to the nearest
Percentage(part, total) ==
    IF total > 0 THEN (2 * 10000 * part + total) \div (2 * total) ELSE 0

\* the summary of a suite as suite_run prints it: the three percentages and the total
PrintSuiteSummary(l, suite, s) ==
    Append(l, [kind |-> "suiteSummary", suite |-> suite.name, test |-> 0, fn |-> nullptr,
               total |-> registeredTests(suite),
               percentages |-> <<Percentage(s.passedTests, registeredTests(suite)),
                                 Percentage(s.skippedTests, registeredTests(suite)),
                                 Percentage(s.failedTests, registeredTests(suite))>>])

\* the summary of the run as executeSuites prints it: the numbers and percentages of the
\* suites that passed and failed, the percentages of the tests that passed, were skipped and
\* failed, with the totals
\* faulty variant: the failed tests are counted in place of the failed suites
PrintRunSummary_FailedTests(l) ==
    LET passedSuites == registeredSuites - summary.failedTests
        totalTests == summary.passedTests + summary.skippedTests + summary.failedTests
    IN  Append(l, [kind |-> "runSummary", suite |-> 0, test |-> 0, fn |-> nullptr,
                   totalSuites |-> registeredSuites,
                   passedSuites |-> passedSuites, failedSuites |-> summary.failedTests,
                   suitePercentages |-> <<Percentage(passedSuites, registeredSuites),
                                          Percentage(summary.failedTests, registeredSuites)>>,
                   totalTests |-> totalTests,
                   testPercentages |-> <<Percentage(summary.passedTests, totalTests),
                                         Percentage(summary.skippedTests, totalTests),
                                         Percentage(summary.failedTests, totalTests)>>])

PrintRunSummary(l) ==
    LET passedSuites == registeredSuites - failedSuites
        totalTests == summary.passedTests + summary.skippedTests + summary.failedTests
    IN  Append(l, [kind |-> "runSummary", suite |-> 0, test |-> 0, fn |-> nullptr,
                   totalSuites |-> registeredSuites,
                   passedSuites |-> passedSuites, failedSuites |-> failedSuites,
                   suitePercentages |-> <<Percentage(passedSuites, registeredSuites),
                                          Percentage(failedSuites, registeredSuites)>>,
                   totalTests |-> totalTests,
                   testPercentages |-> <<Percentage(summary.passedTests, totalTests),
                                         Percentage(summary.skippedTests, totalTests),
                                         Percentage(summary.failedTests, totalTests)>>])

Terminal(result) ==
    CASE result = SCUNIT_RESULT_PASS -> "Passed"
      [] result = SCUNIT_RESULT_SKIP -> "Skipped"
      [] result = SCUNIT_RESULT_FAIL -> "Failed"
      [] OTHER -> "Unknown"

\* the rest of the iteration: the test timer is stopped, the result read and counted, the
\* status line printed, the test teardown invoked
TestEnd(clockOk) ==
    /\ pc = "testReturned"
    /\ LET suite == CurrentSuite
           test == CurrentTest
           stopped == scunit_timer_stop(testTimer, clockOk)
           result == context.result
           known == KnownResult(result)
       IN  IF stopped.err # SCUNIT_ERROR_NONE \/ ~known
           THEN /\ pc' = "suiteReturned"
                /\ error' = IF stopped.err # SCUNIT_ERROR_NONE
                            THEN stopped.err ELSE SCUNIT_ERROR_UNKNOWN_RESULT
                /\ suiteTimer' = NoTimer
                /\ testTimer' = NoTimer
                /\ context' = NoContext
                /\ log' = Fail(log, suite, <<"valid", "valid", "valid">>)
                /\ UNCHANGED <<ti, suiteSummary, testState>>
           ELSE /\ pc' = "testLoop"
                /\ error' = SCUNIT_ERROR_NONE
                /\ testTimer' = stopped.timer
                /\ suiteSummary' = Count(suiteSummary, result)
                /\ testState' = [testState EXCEPT
                       ![cur + 1][TestPosition(suite, ti) + 1] = Terminal(result)]
                /\ log' = FinishTest(log, suite, test, result, Count(suiteSummary, result))
                /\ ti' = ti + 1
                /\ UNCHANGED <<suiteTimer, context>>
    /\ UNCHANGED <<regVars, execVars, cur, suiteSummaries>>

\* after the loop: the suite teardown is invoked, the suite timer stopped, the test timer, the
\* context and the suite timer freed, the summary of the suite printed
SuiteRunEnd(clockOk) ==
    /\ pc = "testLoop"
    /\ ti >= registeredTests(CurrentSuite)
    /\ LET suite == CurrentSuite
           stopped == scunit_timer_stop(suiteTimer, clockOk)
       IN  /\ log' = IF stopped.err = SCUNIT_ERROR_NONE
                     THEN PrintSuiteSummary(
                              CallTeardown(log, suite)
                                  \o [k \in 1..3 |-> Event("free", suite.name, 0,
                                          <<"testTimer", "context", "suiteTimer">>[k])],
                              suite, suiteSummary)
                     ELSE Fail(CallTeardown(log, suite), suite, <<"valid", "valid", "valid">>)
           /\ error' = stopped.err
    /\ pc' = "suiteReturned"
    /\ suiteTimer' = NoTimer
    /\ testTimer' = NoTimer
    /\ context' = NoContext
    /\ UNCHANGED <<regVars, execVars, cur, ti, suiteSummary, testState, suiteSummaries>>

\* faulty variant: the summary of the suite replaces the summary of the run
AddSummary_Overwrite(total, part) == part

\* summary.passedTests += suiteSummary.passedTests; ... (all three counters)
AddSummary(total, part) ==
    [passedTests |-> total.passedTests + part.passedTests,
     skippedTests |-> total.skippedTests + part.skippedTests,
     failedTests |-> total.failedTests + part.failedTests]

\* faulty variant: a skipped test fails the run as a failed one does
ExitStatus_SkipFails(total) ==
    IF total.failedTests + total.skippedTests > 0 THEN EXIT_FAILURE ELSE EXIT_SUCCESS

\* return (summary.failedTests > 0) ? EXIT_FAILURE : EXIT_SUCCESS;
ExitStatus(total) == IF total.failedTests > 0 THEN EXIT_FAILURE ELSE EXIT_SUCCESS

\* faulty variant: an error of suite_run is printed and the loop goes on
SuiteAggregate_ContinueOnError ==
    /\ pc = "suiteReturned"
    /\ pc' = "suiteLoop"
    /\ i' = i + 1
    /\ IF error # SCUNIT_ERROR_NONE
       THEN UNCHANGED <<failedSuites, summary, suiteSummaries>>
       ELSE /\ failedSuites' = IF suiteSummary.failedTests > 0
                               THEN failedSuites + 1 ELSE failedSuites
            /\ summary' = AddSummary(summary, suiteSummary)
            /\ suiteSummaries' = [suiteSummaries EXCEPT ![cur + 1] = suiteSummary]
    /\ UNCHANGED <<regVars, suiteIndices, timer, error, exitCode, runVars, log, testState>>

\* faulty variant: the tests of the suite that was run are released with its summary
SuiteAggregate_FreeTests ==
    /\ pc = "suiteReturned"
    /\ IF error # SCUNIT_ERROR_NONE
       THEN /\ pc' = "exited"
            /\ exitCode' = EXIT_FAILURE
            /\ UNCHANGED <<i, failedSuites, summary, suiteSummaries, suites>>
       ELSE /\ pc' = "suiteLoop"
            /\ failedSuites' = IF suiteSummary.failedTests > 0
                               THEN failedSuites + 1 ELSE failedSuites
            /\ summary' = AddSummary(summary, suiteSummary)
            /\ suiteSummaries' = [suiteSummaries EXCEPT ![cur + 1] = suiteSummary]
            /\ suites' = [suites EXCEPT ![cur + 1].tests = <<>>]
            /\ i' = i + 1
            /\ UNCHANGED exitCode
    /\ UNCHANGED <<capacity, order, hookRegs, suiteIndices, timer, error, runVars, log, testState>>

\* executeSuites after suite_run returned: exit on an error, else the summary of the suite is
\* added to the summary of the run
SuiteAggregate ==
    /\ pc = "suiteReturned"
    /\ IF error # SCUNIT_ERROR_NONE
       THEN /\ pc' = "exited"
            /\ exitCode' = EXIT_FAILURE
            /\ UNCHANGED <<i, failedSuites, summary, suiteSummaries>>
       ELSE /\ pc' = "suiteLoop"
            /\ failedSuites' = IF suiteSummary.failedTests > 0
                               THEN failedSuites + 1 ELSE failedSuites
            /\ summary' = AddSummary(summary, suiteSummary)
            /\ suiteSummaries' = [suiteSummaries EXCEPT ![cur + 1] = suiteSummary]
            /\ i' = i + 1
            /\ UNCHANGED exitCode
    /\ UNCHANGED <<regVars, suiteIndices, timer, error, runVars, log, testState>>

\* executeSuites after the loop: the run-level timer is stopped, the summary printed, the exit
\* code returned
ExecEnd(clockOk) ==
    /\ pc = "suiteLoop"
    /\ i >= registeredSuites
    /\ LET stopped == scunit_timer_stop(timer, clockOk)
       IN  /\ error' = stopped.err
           /\ IF stopped.err # SCUNIT_ERROR_NONE
              THEN /\ pc' = "exited"
                   /\ exitCode' = EXIT_FAILURE
                   /\ UNCHANGED log
              ELSE /\ pc' = "returned"
                   /\ exitCode' = ExitStatus(summary)
                   /\ log' = PrintRunSummary(log)
    /\ timer' = NoTimer
    /\ UNCHANGED <<regVars, suiteIndices, i, failedSuites, summary, runVars, testState,
                   suiteSummaries>>

\* ------------------------------------------------------------ specification
Next ==
    \/ /\ \E ok \in BOOLEAN : scunit_registerSuite(ok)
       /\ UNCHANGED auxVars
    \/ /\ \E s \in 1..MaxRegs, ok1 \in BOOLEAN, ok2 \in BOOLEAN :
              scunit_suite_registerTest(s, ok1, ok2)
       /\ UNCHANGED auxVars
    \/ /\ \E s \in 1..MaxRegs, f \in HookFns : scunit_suite_registerSetup(s, f)
       /\ UNCHANGED auxVars
    \/ /\ \E s \in 1..MaxRegs, f \in HookFns : scunit_suite_registerTeardown(s, f)
       /\ UNCHANGED auxVars
    \/ /\ \E s \in 1..MaxRegs, f \in HookFns : scunit_suite_registerTestSetup(s, f)
       /\ UNCHANGED auxVars
    \/ /\ \E s \in 1..MaxRegs, f \in HookFns : scunit_suite_setTestTeardown(s, f)
       /\ UNCHANGED auxVars
    \/ /\ \E o \in 0..2 : scunit_setOrder(o)
       /\ UNCHANGED auxVars
    \/ /\ \E ok1 \in BOOLEAN, ok2 \in BOOLEAN, ok3 \in BOOLEAN, d \in DrawSeqs(registeredSuites) :
              ExecBegin(ok1, ok2, ok3, d)
       /\ UNCHANGED auxVars
    \/ /\ \E ok1 \in BOOLEAN, ok2 \in BOOLEAN, ok3 \in BOOLEAN, ok4 \in BOOLEAN, crash \in BOOLEAN :
              SuiteRunBegin(ok1, ok2, ok3, ok4, crash)
       /\ UNCHANGED auxVars
    \/ /\ \E ok \in BOOLEAN : TestBegin(ok)
       /\ UNCHANGED auxVars
    \/ /\ \E b \in TestBehaviours : TestFunction(b)
       /\ UNCHANGED auxVars
    \/ /\ \E ok \in BOOLEAN : TestEnd(ok)
       /\ UNCHANGED auxVars
    \/ /\ \E ok \in BOOLEAN : SuiteRunEnd(ok)
       /\ UNCHANGED auxVars
    \/ /\ SuiteAggregate
       /\ UNCHANGED auxVars
    \/ /\ \E ok \in BOOLEAN : ExecEnd(ok)
       /\ UNCHANGED auxVars

Spec == Init /\ [][Next]_vars

\* -------------------------------------- executeSuites driven by the generator
\* The same registry and scheduler, with the shuffle drawing from `random`, no allocation or
\* clock failure, and executeSuites called up to MaxRuns times.
Seeds == {U64(n) : n \in 0..MaxSeed} \cup {U64(42)}

\* the values scunit_random_int64(random, 0, i) returns in the shuffle loop for
\* i = k, k - 1, .. 1, in the order drawn, and the generator after the loop
RECURSIVE ShuffleDraws(_, _)
ShuffleDraws(rnd, k) ==
    IF k <= 0 THEN [draws |-> <<>>, random |-> rnd]
    ELSE LET r == scunit_random_int64(rnd, 0, k)
             rest == ShuffleDraws(r.random, k - 1)
         IN  [draws |-> <<r.value>> \o rest.draws, random |-> rest.random]

\* the draws by the index i they were drawn for
ByIndex(drawn) == [k \in 1..Len(drawn) |-> drawn[Len(drawn) + 1 - k]]

\* the suite headers printed and test functions called, in order
Executed(l) == SelectSeq(l, LAMBDA e : e.kind \in {"suiteHeader", "test"})

\* init(): random = scunit_random_new(), seeded with time(nullptr)
InitRandom ==
    /\ InitCore
    /\ \E seed \in Seeds : random = scunit_random_setSeed(NoRandom, seed)
    /\ fresh = TRUE
    /\ runs = <<>>
    /\ HooksUnused
    /\ PrintUnused
    /\ TimerUnused
    /\ CallersUnused

\* scunit_parseArguments with --seed=<seed>
ParseSeed(seed) ==
    /\ pc = "idle"
    /\ random' = scunit_random_setSeed(random, seed)
    /\ fresh' = TRUE
    /\ UNCHANGED <<regVars, error, pc, execVars, runVars, histVars, runs, notRandVars>>

\* a call of executeSuites: ExecBegin with the draws of the generator
RandomExecBegin ==
    /\ Len(runs) < MaxRuns
    /\ LET sd == ShuffleDraws(random, registeredSuites - 1)
           shuffled == order = SCUNIT_ORDER_RANDOM
       IN  /\ ExecBegin(TRUE, TRUE, TRUE, ByIndex(sd.draws))
           /\ random' = IF shuffled THEN sd.random ELSE random
           /\ fresh' = (fresh /\ ~(shuffled /\ registeredSuites > 1))
           /\ runs' = Append(runs, [mode |-> order, seeded |-> fresh, seed |-> random.seed,
                                    registry |-> suites, completed |-> FALSE,
                                    printed |-> random.seed, executed |-> <<>>])
    /\ UNCHANGED notRandVars

\* the return of executeSuites: what was executed, and the seed printed for a random order
RandomExecEnd ==
    /\ ExecEnd(TRUE)
    /\ runs' = [runs EXCEPT ![Len(runs)] =
                    [@ EXCEPT !.completed = TRUE, !.executed = Executed(log),
                              !.printed = random.seed]]
    /\ UNCHANGED <<random, fresh, notRandVars>>

\* the caller, after executeSuites returned, is where it may call it again
CallAgain ==
    /\ pc = "returned"
    /\ Len(runs) < MaxRuns
    /\ pc' = "idle"
    /\ UNCHANGED <<regVars, error, execVars, runVars, histVars, auxVars>>

NextRandom ==
    \/ /\ runs = <<>>
       /\ scunit_registerSuite(TRUE)
       /\ UNCHANGED auxVars
    \/ /\ runs = <<>>
       /\ \E s \in 1..MaxRegs : scunit_suite_registerTest(s, TRUE, TRUE)
       /\ UNCHANGED auxVars
    \/ /\ \E o \in {SCUNIT_ORDER_SEQUENTIAL, SCUNIT_ORDER_RANDOM} : scunit_setOrder(o)
       /\ UNCHANGED auxVars
    \/ \E seed \in Seeds : ParseSeed(seed)
    \/ RandomExecBegin
    \/ /\ SuiteRunBegin(TRUE, TRUE, TRUE, TRUE, FALSE)
       /\ UNCHANGED auxVars
    \/ /\ TestBegin(TRUE)
       /\ UNCHANGED auxVars
    \/ /\ TestFunction("pass")
       /\ UNCHANGED auxVars
    \/ /\ TestEnd(TRUE)
       /\ UNCHANGED auxVars
    \/ /\ SuiteRunEnd(TRUE)
       /\ UNCHANGED auxVars
    \/ /\ SuiteAggregate
       /\ UNCHANGED auxVars
    \/ RandomExecEnd
    \/ CallAgain

SpecRandom == InitRandom /\ [][NextRandom]_vars

\* ------------------------------------------------- the hooks of a suite, replaced
\* The same registry and scheduler with more than one callable per hook kind, no allocation
\* or clock failure, and every registration of a hook remembered.
Callables == {nullptr, 1, 2}
HookKinds == {"setup", "teardown", "testSetup", "testTeardown"}

InitHooks ==
    /\ InitCore
    /\ RandomUnused
    /\ HooksUnused
    /\ PrintUnused
    /\ TimerUnused
    /\ CallersUnused

\* a suite is registered: none of its hooks has been registered
RegisterSuite ==
    /\ scunit_registerSuite(TRUE)
    /\ hookHistory' = Append(hookHistory, [kind \in HookKinds |-> <<>>])

\* hook: one of the four functions that register a hook, called with the callable f
RegisterHook(kind, s, f) ==
    /\ CASE kind = "setup" -> scunit_suite_registerSetup(s, f)
         [] kind = "teardown" -> scunit_suite_registerTeardown(s, f)
         [] kind = "testSetup" -> scunit_suite_registerTestSetup(s, f)
         [] kind = "testTeardown" -> scunit_suite_setTestTeardown(s, f)
    /\ hookHistory' = [hookHistory EXCEPT ![s][kind] = Append(@, f)]

NextHooks ==
    \/ /\ RegisterSuite
       /\ UNCHANGED notHookVars
    \/ /\ \E s \in 1..MaxRegs : scunit_suite_registerTest(s, TRUE, TRUE)
       /\ UNCHANGED auxVars
    \/ /\ \E kind \in HookKinds, s \in 1..MaxRegs, f \in Callables : RegisterHook(kind, s, f)
       /\ UNCHANGED notHookVars
    \/ /\ ExecBegin(TRUE, TRUE, TRUE, <<>>)
       /\ UNCHANGED auxVars
    \/ /\ SuiteRunBegin(TRUE, TRUE, TRUE, TRUE, FALSE)
       /\ UNCHANGED auxVars
    \/ /\ TestBegin(TRUE)
       /\ UNCHANGED auxVars
    \/ /\ TestFunction("pass")
       /\ UNCHANGED auxVars
    \/ /\ TestEnd(TRUE)
       /\ UNCHANGED auxVars
    \/ /\ SuiteRunEnd(TRUE)
       /\ UNCHANGED auxVars
    \/ /\ SuiteAggregate
       /\ UNCHANGED auxVars
    \/ /\ ExecEnd(TRUE)
       /\ UNCHANGED auxVars

SpecHooks == InitHooks /\ [][NextHooks]_vars

\* ------------------------------------------------ a caller of the buffer writers
\* One buffer/size pair of a caller that calls the buffer writers on it twice, plain or
\* colored, with every realloc of a call free to fail.
Texts == {<<>>, <<"a">>, <<"b", "c">>, [k \in 1..MaxText |-> "x"]}
NoColors == <<SCUNIT_COLOR_DARK_DEFAULT, SCUNIT_COLOR_DARK_DEFAULT>>
Failing == {"none", "init", "text"}
\* the colors, text and failing realloc of a colored call: every text and realloc with a
\* valid pair of colors (two of them), and two pairs with a color outside SCUnitColor
ColoredInputs ==
    ({<<SCUNIT_COLOR_BRIGHT_DEFAULT, SCUNIT_COLOR_DARK_DEFAULT>>,
      <<SCUNIT_COLOR_DARK_BLACK, SCUNIT_COLOR_BRIGHT_DEFAULT>>}
        \X Texts \X (Failing \cup {"start", "reset"}))
    \cup ({<<18, SCUNIT_COLOR_DARK_DEFAULT>>, <<1, -1>>} \X {<<"a">>} \X {"none"})

\* the pairs a caller starts with: the empty one, a string in a block of its exact size, and
\* pairs that break (buffer == nullptr) == (size == 0)
InitialPairs ==
    {<<NullBuffer, 0>>, <<[ptr |-> 1, mem |-> <<"a", "b", NUL>>], 3>>,
     <<[ptr |-> 1, mem |-> <<"a", "b", NUL>>], 0>>, <<NullBuffer, 3>>}

InitBuffer ==
    /\ InitCore
    /\ RandomUnused
    /\ HooksUnused
    /\ \E pair \in InitialPairs : buffer = pair[1] /\ size = pair[2]
    /\ currentColoredOutput = SCUNIT_COLORED_OUTPUT_ENABLED
    /\ call = NoCall
    /\ prev = NoCall
    /\ TimerUnused
    /\ CallersUnused

\* scunit_setColoredOutput(coloredOutput, error)
scunit_setColoredOutput(coloredOutput) ==
    /\ currentColoredOutput' =
           IF (coloredOutput < SCUNIT_COLORED_OUTPUT_DISABLED)
                  \/ (coloredOutput > SCUNIT_COLORED_OUTPUT_ENABLED)
           THEN currentColoredOutput ELSE coloredOutput
    /\ UNCHANGED <<buffer, size, call, prev, notPrintVars>>

\* the caller calls a buffer writer on its pair, for the first or the second time, and keeps
\* what the call left in it
Called(op, colored, colors, text, failing, r) ==
    /\ prev = NoCall
    /\ buffer' = r.buffer
    /\ size' = r.size
    /\ call' = [op |-> op, colored |-> colored, colors |-> colors, text |-> text,
                failing |-> failing,
                enabled |-> (currentColoredOutput = SCUNIT_COLORED_OUTPUT_ENABLED),
                before |-> [buffer |-> buffer, size |-> size], error |-> r.error]
    /\ prev' = call
    /\ UNCHANGED <<currentColoredOutput, notPrintVars>>

NextBuffer ==
    \/ \E o \in 0..2 : scunit_setColoredOutput(o)
    \/ \E text \in Texts, failing \in Failing :
           Called("write", FALSE, NoColors, text, failing,
                  scunit_vrsnprintf(buffer, size, text, failing))
    \/ \E text \in Texts, failing \in Failing :
           /\ Called("append", FALSE, NoColors, text, failing,
                     scunit_vrasnprintf(buffer, size, text, failing))
    \/ \E in \in ColoredInputs :
           Called("write", TRUE, in[1], in[2], in[3],
                  scunit_vrsnprintfc(buffer, size, in[1], in[2], in[3],
                                     currentColoredOutput = SCUNIT_COLORED_OUTPUT_ENABLED))
    \/ \E in \in ColoredInputs :
           /\ Called("append", TRUE, in[1], in[2], in[3],
                     scunit_vrasnprintfc(buffer, size, in[1], in[2], in[3],
                                         currentColoredOutput = SCUNIT_COLORED_OUTPUT_ENABLED))

SpecBuffer == InitBuffer /\ [][NextBuffer]_vars

\* ------------------------------------------------------- a caller of the timer
\* One SCUnitTimer of a caller that calls the functions of timer.c on it in any order while
\* the clocks advance, with every clock_gettime free to fail.
InitTimer ==
    /\ InitCore
    /\ RandomUnused
    /\ HooksUnused
    /\ PrintUnused
    /\ CallersUnused
    /\ tm = [isRunning |-> FALSE, wallTimeStartSeconds |-> 0, wallTimeEndSeconds |-> 0,
             cpuTimeStartSeconds |-> 0, cpuTimeEndSeconds |-> 0]
    /\ clock = [wall |-> 0, cpu |-> 0]
    /\ timerCall = NoCall

\* a second passes, in which the process uses the processor or waits
Tick(busy) ==
    /\ clock.wall < MaxClock
    /\ clock' = [wall |-> clock.wall + 1, cpu |-> clock.cpu + (IF busy THEN 1 ELSE 0)]
    /\ UNCHANGED <<tm, timerCall, notTimerVars>>

\* the caller calls `op` on its timer: the result code and, of a query, the time measured;
\* `stopped` tells that a stop has succeeded since the timer was last started
TimerCalled(op, r) ==
    /\ tm' = r.timer
    /\ timerCall' = [op |-> op, wasRunning |-> tm.isRunning, err |-> r.err, time |-> r.time,
                     stopped |-> IF r.err = SCUNIT_ERROR_NONE /\ op = "stop" THEN TRUE
                                 ELSE IF r.err = SCUNIT_ERROR_NONE /\ op \in {"start", "restart"}
                                 THEN FALSE
                                 ELSE timerCall.op # "none" /\ timerCall.stopped]
    /\ UNCHANGED <<clock, notTimerVars>>

\* scunit_timer_start(timer), scunit_timer_restart(timer): the start times are taken
TimerStart(clockOk) ==
    LET r == scunit_timer_start(tm, clockOk)
    IN  TimerCalled("start", [err |-> r.err, time |-> 0, timer |->
            IF r.err # SCUNIT_ERROR_NONE THEN tm
            ELSE [r.timer EXCEPT !.wallTimeStartSeconds = clock.wall,
                                 !.cpuTimeStartSeconds = clock.cpu]])

TimerRestart(clockOk) ==
    TimerCalled("restart", [time |-> 0,
        err |-> IF ~tm.isRunning THEN SCUNIT_ERROR_TIMER_NOT_RUNNING
                ELSE IF ~clockOk THEN SCUNIT_ERROR_TIMER_FAILED ELSE SCUNIT_ERROR_NONE,
        timer |-> IF tm.isRunning /\ clockOk
                  THEN [tm EXCEPT !.wallTimeStartSeconds = clock.wall,
                                  !.cpuTimeStartSeconds = clock.cpu]
                  ELSE tm])

\* scunit_timer_stop(timer): the end times are taken
TimerStop(clockOk) ==
    LET r == scunit_timer_stop(tm, clockOk)
    IN  TimerCalled("stop", [err |-> r.err, time |-> 0, timer |->
            IF r.err # SCUNIT_ERROR_NONE THEN tm
            ELSE [r.timer EXCEPT !.wallTimeEndSeconds = clock.wall,
                                 !.cpuTimeEndSeconds = clock.cpu]])

\* scunit_timer_wallTime(timer, wallTimeMeasurement)
scunit_timer_wallTime ==
    TimerCalled("wallTime",
        IF tm.isRunning THEN [err |-> SCUNIT_ERROR_TIMER_RUNNING, time |-> 0, timer |-> tm]
        ELSE [err |-> SCUNIT_ERROR_NONE, timer |-> tm,
              time |-> tm.wallTimeEndSeconds - tm.wallTimeStartSeconds])

\* scunit_timer_cpuTime(timer, cpuTimeMeasurement)
scunit_timer_cpuTime ==
    TimerCalled("cpuTime",
        IF tm.isRunning THEN [err |-> SCUNIT_ERROR_TIMER_RUNNING, time |-> 0, timer |-> tm]
        ELSE [err |-> SCUNIT_ERROR_NONE, timer |-> tm,
              time |-> tm.cpuTimeEndSeconds - tm.cpuTimeStartSeconds])

NextTimer ==
    \/ \E busy \in BOOLEAN : Tick(busy)
    \/ \E clockOk \in BOOLEAN : TimerStart(clockOk)
    \/ \E clockOk \in BOOLEAN : TimerRestart(clockOk)
    \/ \E clockOk \in BOOLEAN : TimerStop(clockOk)
    \/ scunit_timer_wallTime
    \/ scunit_timer_cpuTime

SpecTimer == InitTimer /\ [][NextTimer]_vars

\* ------------------------------------------- two callers of the generator
\* Each of two callers owns one SCUnitRandom: it makes it with a seed, reseeds it and draws
\* from it. `calls` are the draws made since the generator was last seeded, `earlier` tells
\* that draws were made before that. Both start without a generator, as in Init.
\* scunit_random_withSeed (scunit_random_new is the same with the time as seed)
scunit_random_withSeed(g, seed, mallocOk) ==
    /\ gens[g].rnd = NoRandom
    /\ gens' = [gens EXCEPT ![g] =
           IF mallocOk
           THEN [rnd |-> scunit_random_setSeed(NoRandom, seed), calls |-> <<>>,
                 earlier |-> FALSE, error |-> SCUNIT_ERROR_NONE]
           ELSE [@ EXCEPT !.error = SCUNIT_ERROR_OUT_OF_MEMORY]]
    /\ UNCHANGED <<cx, cxCall, notCallerVars>>

\* the caller reseeds its generator
Reseed(g, seed) ==
    /\ gens[g].rnd # NoRandom
    /\ gens' = [gens EXCEPT ![g] =
           [@ EXCEPT !.rnd = scunit_random_setSeed(@, seed),
                     !.calls = <<>>,
                     !.earlier = gens[g].earlier \/ gens[g].calls # <<>>]]
    /\ UNCHANGED <<cx, cxCall, notCallerVars>>

\* the caller draws a value between min and max
Draw(g, min, max) ==
    /\ gens[g].rnd # NoRandom
    /\ Len(gens[g].calls) < MaxDraws
    /\ LET r == scunit_random_int64(gens[g].rnd, min, max)
       IN  gens' = [gens EXCEPT ![g] =
               [@ EXCEPT !.rnd = r.random,
                         !.calls = Append(@, [min |-> min, max |-> max, value |-> r.value])]]
    /\ UNCHANGED <<cx, cxCall, notCallerVars>>

NextPrng ==
    \/ \E g \in 1..2, seed \in Seeds, mallocOk \in BOOLEAN :
           scunit_random_withSeed(g, seed, mallocOk)
    \/ \E g \in 1..2, seed \in Seeds : Reseed(g, seed)
    \/ \E g \in 1..2, range \in {<<0, 1>>, <<-5, 1000>>} : Draw(g, range[1], range[2])

SpecPrng == Init /\ [][NextPrng]_vars

\* ------------------------------------------------- a caller of the context
CONTEXT_LINES == 2

\* scunit_readLine(stream, buffer, size, moreLines): the characters of `file` from position
\* pos up to a newline ("LF") or the end of the file are read into the line buffer, of sz
\* bytes and holding `text` so far. `fault` is "alloc" when the calloc or realloc of this call
\* fails and "read" when fgetc fails.
RECURSIVE scunit_readLine(_, _, _, _, _)
scunit_readLine(file, pos, sz, text, fault) ==
    LET return(err, more) ==
            [error |-> err, pos |-> pos, size |-> sz, text |-> text, moreLines |-> more]
    IN  IF sz = 0
        THEN IF fault = "alloc" THEN return(SCUNIT_ERROR_OUT_OF_MEMORY, TRUE)
             ELSE scunit_readLine(file, pos, CtxBufSize, text, fault)
        ELSE IF fault = "read" THEN return(SCUNIT_ERROR_READING_STREAM_FAILED, FALSE)
        ELSE IF pos > Len(file) THEN return(SCUNIT_ERROR_NONE, FALSE)
        ELSE IF file[pos] = "LF"
        THEN [return(SCUNIT_ERROR_NONE, TRUE) EXCEPT !.pos = pos + 1]
        ELSE IF Len(text) >= sz - 1
        THEN IF fault = "alloc" THEN return(SCUNIT_ERROR_OUT_OF_MEMORY, TRUE)
             ELSE scunit_readLine(file, pos, sz * GROWTH_FACTOR, text, fault)
        ELSE scunit_readLine(file, pos + 1, sz, Append(text, file[pos]), fault)

\* the loop goes on with what a writer left of the message, and with its error
Written(st, w) == [st EXCEPT !.message = w.buffer, !.size = w.size, !.error = w.error]

\* a scunit_rasnprintfc (colors given) or scunit_rasnprintf (colors <<>>) of the loop body
\* on the message, skipped by `goto fail` when the iteration has failed before
Chained(st, colors, text, failing, enabled) ==
    IF st.error # SCUNIT_ERROR_NONE THEN st
    ELSE IF colors # <<>>
    THEN Written(st, scunit_vrasnprintfc(st.message, st.size, colors, text, failing, enabled))
    ELSE Written(st, scunit_vrasnprintf(st.message, st.size, text, failing))

\* the loop of scunit_context_appendFileContext from iteration cl on: a line is read and, from
\* firstContextLine on, appended to the message as its number, " | " and its text. `fault`
\* names the iteration and the step of it in which an allocation or the read fails.
RECURSIVE FileContext(_, _, _, _, _, _)
FileContext(st, cl, file, line, fault, enabled) ==
    LET firstContextLine == IF line > CONTEXT_LINES THEN line - CONTEXT_LINES ELSE 1
        lastContextLine == line + CONTEXT_LINES
        maxLineNumberWidth == Len(Digits(lastContextLine))
        f == IF fault.at = cl THEN fault.step ELSE "none"
        site == IF enabled THEN "start" ELSE "text"
        r == scunit_readLine(file, st.pos, st.scratch, <<>>, f)
        read == [st EXCEPT !.pos = r.pos, !.scratch = r.size, !.moreLines = r.moreLines,
                           !.error = r.error]
        number == <<" ", " ">> \o [k \in 1..(maxLineNumberWidth - Len(Digits(cl))) |-> " "]
                      \o Digits(cl)
    IN  IF cl > lastContextLine \/ ~st.moreLines \/ st.error # SCUNIT_ERROR_NONE THEN st
        ELSE IF cl < firstContextLine THEN FileContext(read, cl + 1, file, line, fault, enabled)
        ELSE FileContext(
                 Chained(Chained(Chained(read,
                         <<SCUNIT_COLOR_DARK_CYAN, SCUNIT_COLOR_DARK_DEFAULT>>, number,
                         IF f = "number" THEN site ELSE "none", enabled),
                     <<>>, <<" ", "|", " ">>, IF f = "separator" THEN "text" ELSE "none",
                     enabled),
                     <<IF cl = line THEN SCUNIT_COLOR_DARK_RED ELSE SCUNIT_COLOR_DARK_DEFAULT,
                       SCUNIT_COLOR_DARK_DEFAULT>>,
                     Append(r.text, "LF"), IF f = "text" THEN site ELSE "none", enabled),
                 cl + 1, file, line, fault, enabled)

\* after the loop: the line buffer is freed, the file closed, and the error of the loop or
\* of fclose returned; the context keeps the message as the loop left it. `first` is the
\* value of the local variable `error` when fclose is called.
Closed_CloseErrorWins(ctx, done, closeOk) ==
    [err |-> IF ~closeOk THEN SCUNIT_ERROR_CLOSING_STREAM_FAILED ELSE done.error,
     first |-> done.error,
     ctx |-> [ctx EXCEPT !.message = done.message, !.size = done.size]]

Closed(ctx, done, closeOk) ==
    [err |-> IF done.error # SCUNIT_ERROR_NONE THEN done.error
             ELSE IF ~closeOk THEN SCUNIT_ERROR_CLOSING_STREAM_FAILED
             ELSE SCUNIT_ERROR_NONE,
     first |-> done.error,
     ctx |-> [ctx EXCEPT !.message = done.message, !.size = done.size]]

\* scunit_context_appendFileContext(context, filename, line), `file` being the characters of
\* the file of that name and openOk, closeOk telling whether fopen and fclose succeed
scunit_context_appendFileContext(ctx, file, line, openOk, closeOk, fault, enabled) ==
    IF line < 1 THEN [err |-> SCUNIT_ERROR_ARGUMENT_OUT_OF_RANGE, ctx |-> ctx]
    ELSE IF ~openOk THEN [err |-> SCUNIT_ERROR_OPENING_STREAM_FAILED, ctx |-> ctx]
    ELSE Closed(ctx, FileContext([message |-> ctx.message, size |-> ctx.size,
                                  error |-> SCUNIT_ERROR_NONE, pos |-> 1, scratch |-> 0,
                                  moreLines |-> TRUE], 1, file, line, fault, enabled),
                closeOk)

\* The caller has a new context (scunit_context_new: result Pass, a calloc'ed message of the
\* initial size) and colored output enabled or disabled. It may begin a message; then it
\* either appends a file context to it, as SCUNIT_ASSERT does, or sets the result any number
\* of times.
InitContext ==
    /\ InitCore
    /\ RandomUnused
    /\ HooksUnused
    /\ buffer = NullBuffer
    /\ size = 0
    /\ currentColoredOutput \in {SCUNIT_COLORED_OUTPUT_DISABLED, SCUNIT_COLORED_OUTPUT_ENABLED}
    /\ call = NoCall
    /\ prev = NoCall
    /\ TimerUnused
    /\ gens = [g \in 1..2 |-> [rnd |-> NoRandom, calls |-> <<>>, earlier |-> FALSE,
                               error |-> SCUNIT_ERROR_NONE]]
    /\ cx = [result |-> SCUNIT_RESULT_PASS, size |-> CtxBufSize,
             message |-> [ptr |-> 1, mem |-> [k \in 1..CtxBufSize |-> NUL]]]
    /\ cxCall = NoCall

\* the caller calls a function of context.c on its context and keeps what the call left
ContextCalled(op, args, r) ==
    /\ cxCall.op # "appendFileContext"
    /\ cx' = r.ctx
    /\ cxCall' = [op |-> op, args |-> args, before |-> cx, err |-> r.err,
                  first |-> IF "first" \in DOMAIN r THEN r.first ELSE r.err,
                  enabled |-> (currentColoredOutput = SCUNIT_COLORED_OUTPUT_ENABLED)]
    /\ UNCHANGED <<gens, notCallerVars>>

NextContext ==
    \/ \E result \in (SCUNIT_RESULT_PASS - 1)..(SCUNIT_RESULT_FAIL + 1) :
           ContextCalled("setResult", <<result>>, scunit_context_setResult(cx, result))
    \/ \E text \in {<<"a">>, <<"b", "c", "LF">>} :
           /\ strnlen(cx.message.mem, cx.size) = 0
           /\ LET r == scunit_vrasnprintf(cx.message, cx.size, text, "none")
              IN  ContextCalled("appendMessage", <<text>>,
                      [err |-> r.error,
                       ctx |-> [cx EXCEPT !.message = r.buffer, !.size = r.size]])
    \/ \E n \in 0..MaxFile, line \in 0..(MaxFile + 1),
          closeOk \in BOOLEAN,
          fault \in {[at |-> 0, step |-> "none"], [at |-> 0, step |-> "open"]}
                        \cup [at : 1..MaxFile,
                              step : {"alloc", "read", "number", "separator", "text"}] :
           \E file \in [1..n -> {"a", "LF"}] \cup {[k \in 1..(3 * MaxFile + 1) |-> "LF"]} :
               /\ cxCall.op \in {"none", "appendMessage"}
               /\ ContextCalled("appendFileContext", <<file, line, closeOk>>,
                      scunit_context_appendFileContext(cx, file, line, fault.step # "open",
                          closeOk, fault,
                          currentColoredOutput = SCUNIT_COLORED_OUTPUT_ENABLED))

SpecContext == InitContext /\ [][NextContext]_vars

\* ------------------------------------------------------------------ claims
\* positions of the log at which a test function was called / a suite run began
TestCalls == {k \in 1..Len(log) : log[k].kind = "test"}
SuiteHeaders == {k \in 1..Len(log) : log[k].kind = "suiteHeader"}

\* the test named t of the suite named s was called before position h of the log
CalledBefore(s, t, h) ==
    \E a \in TestCalls : log[a].suite = s /\ log[a].test = t /\ a < h

C3_SummaryCountsAllTests ==
    (pc = "suiteReturned" /\ error = SCUNIT_ERROR_NONE) =>
        suiteSummary.passedTests + suiteSummary.skippedTests + suiteSummary.failedTests
            = registeredTests(CurrentSuite)

C3_Witness ==
    /\ pc = "suiteReturned"
    /\ error = SCUNIT_ERROR_NONE
    /\ suiteSummary.passedTests > 0
    /\ suiteSummary.skippedTests > 0
    /\ suiteSummary.failedTests > 0

\* the sum of the counter c over the summaries of the suites 1..n
RECURSIVE SumCounter(_, _)
SumCounter(n, c) == IF n = 0 THEN 0 ELSE SumCounter(n - 1, c) + suiteSummaries[n][c]

\* C4: when executeSuites returns (no fatal error), every suite has been executed and each
\* counter of the summary of the run is the sum of that counter over the summaries of the suites.
C4_RunSummaryIsSum ==
    pc = "returned" =>
        /\ \A s \in 1..registeredSuites : suiteSummaries[s] # NoSummary
        /\ summary.passedTests = SumCounter(registeredSuites, "passedTests")
        /\ summary.skippedTests = SumCounter(registeredSuites, "skippedTests")
        /\ summary.failedTests = SumCounter(registeredSuites, "failedTests")

C4_Witness ==
    /\ pc = "returned"
    /\ \E s1 \in 1..registeredSuites, s2 \in 1..registeredSuites :
           /\ s1 # s2
           /\ suiteSummaries[s1] # ZeroSummary
           /\ suiteSummaries[s2] # ZeroSummary

\* the tests that ended in the state st
TestsIn(s, st) == {t \in DOMAIN testState[s] : testState[s][t] = st}
SomeTestFailed == \E s \in DOMAIN testState : TestsIn(s, "Failed") # {}

TerminalStates == {"Passed", "Skipped", "Failed"}

\* the number of times the function of test t of suite s was called
Calls(s, t) == Cardinality({a \in TestCalls : log[a].suite = s /\ log[a].test = t})

\* a step of a run changes the state of a test only from Pending to Running or from Running
\* to a terminal state
LifecycleStep ==
    pc # "idle" =>
        \A s \in DOMAIN testState : \A t \in DOMAIN testState[s] :
            testState'[s][t] # testState[s][t] =>
                \/ testState[s][t] = "Pending" /\ testState'[s][t] = "Running"
                \/ testState[s][t] = "Running" /\ testState'[s][t] \in TerminalStates

\* at the return of a run every test is in one terminal state, was called once, and the
\* counters of its suite count exactly the tests in each terminal state
LifecycleEnd ==
    pc = "returned" =>
        \A s \in 1..registeredSuites :
            /\ DOMAIN testState[s] = 1..registeredTests(suites[s])
            /\ \A t \in DOMAIN testState[s] :
                   testState[s][t] \in TerminalStates /\ Calls(s, t) = 1
            /\ suiteSummaries[s].passedTests = Cardinality(TestsIn(s, "Passed"))
            /\ suiteSummaries[s].skippedTests = Cardinality(TestsIn(s, "Skipped"))
            /\ suiteSummaries[s].failedTests = Cardinality(TestsIn(s, "Failed"))

\* C6: in a run without fatal error every registered test goes Pending -> Running -> one of
\* Passed, Skipped, Failed: it is called exactly once, counted in exactly the counter of its
\* terminal state, and no step changes a terminal state.
C6_TestLifecycle == [][LifecycleStep]_vars /\ []LifecycleEnd

C6_Witness ==
    /\ pc = "returned"
    /\ \E s \in DOMAIN testState :
           /\ TestsIn(s, "Passed") # {}
           /\ TestsIn(s, "Failed") # {}

\* C7: whenever a test function is about to be called, the context holds the result Pass and
\* an empty message, whatever the test before it left there.
C7_FreshContextAtCall ==
    pc = "testCall" =>
        /\ context.result = SCUNIT_RESULT_PASS
        /\ scunit_context_getMessage(context) = <<>>

\* a test is about to be called on a buffer that still holds bytes of an earlier message
C7_Witness ==
    /\ pc = "testCall"
    /\ ti > 0
    /\ \E k \in 2..Len(context.message) : context.message[k] # 0

\* positions of the log at which a hook of the suite named s (and, for kinds of test hooks,
\* of its test named t) was invoked
HookCalls(kind, s) == {k \in 1..Len(log) : log[k].kind = kind /\ log[k].suite = s}
TestHookCalls(kind, s, t) == {k \in HookCalls(kind, s) : log[k].test = t}

\* positions of the log that belong to the tests of the suite named s
TestPhase(s) ==
    {k \in 1..Len(log) : log[k].suite = s /\ log[k].kind \in {"testSetup", "test", "testTeardown"}}

\* suite_run has returned for the suite named s / has returned without error
SuiteRunReturned(s) ==
    /\ s \in DOMAIN suiteSummaries
    /\ \/ suiteSummaries[s] # NoSummary
       \/ pc = "suiteReturned" /\ cur + 1 = s

SuiteRunCompleted(s) ==
    /\ s \in DOMAIN suiteSummaries
    /\ \/ suiteSummaries[s] # NoSummary
       \/ pc = "suiteReturned" /\ cur + 1 = s /\ error = SCUNIT_ERROR_NONE

\* C8: in a suite run that completes, a registered suite setup is invoked exactly once and
\* before every test setup, test and test teardown of the suite, and a registered suite
\* teardown exactly once and after all of them; with no tests both are still invoked once,
\* the setup first.
C8_SuiteHooksAroundTests ==
    \A s \in 1..registeredSuites :
        SuiteRunCompleted(s) =>
            /\ suites[s].setup # nullptr =>
                   /\ Cardinality(HookCalls("setup", s)) = 1
                   /\ \A h \in HookCalls("setup", s), k \in TestPhase(s) : h < k
            /\ suites[s].teardown # nullptr =>
                   /\ Cardinality(HookCalls("teardown", s)) = 1
                   /\ \A h \in HookCalls("teardown", s), k \in TestPhase(s) : k < h
            /\ (suites[s].setup # nullptr /\ suites[s].teardown # nullptr) =>
                   \A h1 \in HookCalls("setup", s), h2 \in HookCalls("teardown", s) : h1 < h2
            /\ Cardinality(HookCalls("test", s)) = registeredTests(suites[s])

C8_Witness ==
    \E s \in 1..registeredSuites :
        /\ SuiteRunCompleted(s)
        /\ suites[s].setup # nullptr
        /\ suites[s].teardown # nullptr
        /\ registeredTests(suites[s]) > 0

\* the test called at position a of the log has its registered test setup invoked once,
\* directly before it, and its registered test teardown once, directly after it: nothing
\* but the status line of the test is between them
HooksAround(a) ==
    LET s == log[a].suite
        t == log[a].test
    IN  /\ suites[s].testSetup # nullptr =>
               /\ TestHookCalls("testSetup", s, t) = {a - 1}
        /\ suites[s].testTeardown # nullptr =>
               \E b \in (a + 1)..Len(log) :
                   /\ TestHookCalls("testTeardown", s, t) = {b}
                   /\ \A k \in (a + 1)..(b - 1) :
                          log[k].kind = "status" /\ log[k].suite = s /\ log[k].test = t

FailedTestStep ==
    (pc = "testReturned" /\ context.result = SCUNIT_RESULT_FAIL /\ pc' # "testReturned") =>
        /\ error' \in {scunit_timer_stop(testTimer, ok).err : ok \in BOOLEAN}
        /\ error' = SCUNIT_ERROR_NONE =>
               /\ pc' = "testLoop"
               /\ ti' = ti + 1
               /\ suiteSummary' = [suiteSummary EXCEPT !.failedTests = @ + 1]
               /\ testState'[cur + 1][CurrentTest.name] = "Failed"

\* a failed assertion leaves the result Fail and the message of the assertion, nothing else
FailedTestRecord ==
    (pc = "testReturned" /\ context.result = SCUNIT_RESULT_FAIL) =>
        scunit_context_getMessage(context) = FailText

\* a run that had a failed test and no fatal error has called every registered test and
\* begun every registered suite
FailedTestRunsOn ==
    (pc = "returned" /\ SomeTestFailed) =>
        \A s \in 1..registeredSuites :
            /\ HookCalls("suiteHeader", s) # {}
            /\ \A t \in 1..registeredTests(suites[s]) : Calls(s, t) = 1

RunTimerStep == (pc = "idle" /\ pc' # "idle") \/ (pc = "suiteLoop" /\ i >= registeredSuites)

\* suite_run has returned an error to executeSuites
SuiteRunFailed == pc = "suiteReturned" /\ error # SCUNIT_ERROR_NONE

\* the step after such an error exits with EXIT_FAILURE and executes nothing, and an exited
\* process takes no step
ErrorStep ==
    /\ (SuiteRunFailed \/ (RunTimerStep /\ error' # SCUNIT_ERROR_NONE))
           => (pc' = "exited" /\ exitCode' = EXIT_FAILURE /\ Executed(log') = Executed(log))
    /\ pc # "exited"

\* C13: when a suite run or an operation on the timer of the run returns an error, the
\* process exits with EXIT_FAILURE, and no suite or test is executed after the error.
C13_ErrorEndsTheProcess == [][ErrorStep]_vars

\* the process has exited on an error of a suite run, after a test was called and with a test
\* that was never called
C13_Witness ==
    /\ pc = "exited" /\ error # SCUNIT_ERROR_NONE /\ exitCode = EXIT_FAILURE
    /\ \E k \in 1..Len(log) : log[k].kind = "test"
    /\ \E s \in 1..registeredSuites : \E t \in 1..registeredTests(suites[s]) :
           testState[s][t] = "Pending"

\* the callable most recently registered as the hook `kind` of suite s, none before any
MostRecent(s, kind) ==
    IF hookHistory[s][kind] = <<>> THEN nullptr
    ELSE hookHistory[s][kind][Len(hookHistory[s][kind])]

\* the hook `kind` the suite s holds
Held(s, kind) ==
    CASE kind = "setup" -> suites[s].setup
      [] kind = "teardown" -> suites[s].teardown
      [] kind = "testSetup" -> suites[s].testSetup
      [] kind = "testTeardown" -> suites[s].testTeardown

\* the callables invoked as the hook `kind` of suite s
Invoked(s, kind) == {log[k].fn : k \in {j \in 1..Len(log) : log[j].kind = kind /\ log[j].suite = s}}

\* the run of suite s has come to the point where it invokes its hook `kind`
Due(s, kind) ==
    /\ pc = "returned"
    /\ kind \in {"testSetup", "testTeardown"} => registeredTests(suites[s]) > 0

\* C14: after any sequence of registrations of one hook kind a suite holds the callable of the
\* most recent call (none when that was nullptr), and a run invokes that callable and no other.
C14_MostRecentHookWins ==
    \A s \in 1..registeredSuites, kind \in HookKinds :
        /\ Held(s, kind) = MostRecent(s, kind)
        /\ Invoked(s, kind) \subseteq ({MostRecent(s, kind)} \ {nullptr})
        /\ (Due(s, kind) /\ MostRecent(s, kind) # nullptr) => Invoked(s, kind) # {}

\* a run has invoked the setup function of a suite that was registered after another one
\* had been registered and deregistered with nullptr
C14_Witness ==
    /\ pc = "returned"
    /\ \E s \in 1..registeredSuites :
           /\ Len(hookHistory[s]["setup"]) >= 3
           /\ hookHistory[s]["setup"][1] \notin {nullptr, MostRecent(s, "setup")}
           /\ hookHistory[s]["setup"][2] = nullptr
           /\ Invoked(s, "setup") = {MostRecent(s, "setup")}

\* two completed calls of executeSuites with a random order over the same registry
RandomRuns(a, b) ==
    /\ runs[a].completed /\ runs[b].completed
    /\ runs[a].mode = SCUNIT_ORDER_RANDOM /\ runs[b].mode = SCUNIT_ORDER_RANDOM
    /\ runs[a].registry = runs[b].registry

C12_PrintedSeedReproducesRun ==
    \A a \in 1..Len(runs), b \in 1..Len(runs) :
        (RandomRuns(a, b) /\ runs[b].seeded /\ runs[b].seed = runs[a].printed)
            => runs[b].executed = runs[a].executed

\* the string a buffer holds: its bytes before the first null byte
Content(buf) ==
    LET nulls == {k \in 1..Len(buf.mem) : buf.mem[k] = NUL}
    IN  IF nulls = {} THEN buf.mem
        ELSE SubSeq(buf.mem, 1, (CHOOSE k \in nulls : \A j \in nulls : k <= j) - 1)

\* the last call was the plain (uncolored) writer `op` and returned SCUNIT_ERROR_NONE
PlainSuccess(c, op) ==
    c.op = op /\ ~c.colored /\ c.error = SCUNIT_ERROR_NONE

\* C15: after a successful uncolored write the buffer holds exactly the formatted text and a
\* null terminator, whatever it held before, and the text is shorter than the reported size.
C15_WriteReplacesContent ==
    PlainSuccess(call, "write") =>
        /\ Len(call.text) < size
        /\ size = Len(buffer.mem)
        /\ buffer.mem[Len(call.text) + 1] = NUL
        /\ Content(buffer) = call.text

\* a text was written over a longer string, and the same text once more
C15_Witness ==
    /\ PlainSuccess(call, "write") /\ PlainSuccess(prev, "write")
    /\ call.text = prev.text /\ call.text # <<>>
    /\ Len(Content(prev.before.buffer)) > Len(call.text)
    /\ Content(buffer) = Content(call.before.buffer)

\* C16: two successful uncolored appends of A and then B to a buffer holding X leave it
\* holding X A B; with X empty that is the string a single write of AB produces.
C16_AppendsConcatenate ==
    (PlainSuccess(call, "append") /\ PlainSuccess(prev, "append")) =>
        LET X == Content(prev.before.buffer)
            AB == prev.text \o call.text
            single == scunit_vrsnprintf(prev.before.buffer, prev.before.size, AB, "none")
        IN  /\ Content(buffer) = X \o AB
            /\ buffer.mem[Len(X \o AB) + 1] = NUL
            /\ X = <<>> => (single.error = SCUNIT_ERROR_NONE
                            /\ Content(single.buffer) = Content(buffer))

\* two texts were appended to a string, the buffer growing for each
C16_Witness ==
    /\ PlainSuccess(call, "append") /\ PlainSuccess(prev, "append")
    /\ Content(prev.before.buffer) # <<>>
    /\ prev.text # <<>> /\ call.text # <<>> /\ prev.text # call.text
    /\ prev.before.size < call.before.size /\ call.before.size < size

\* C17 (as stated): a write or append that returns SCUNIT_ERROR_OUT_OF_MEMORY leaves the
\* caller's buffer pointer and size as they were before the call.
C17_OutOfMemoryKeepsBufferAndSize ==
    (call.op # "none" /\ call.error = SCUNIT_ERROR_OUT_OF_MEMORY) =>
        (buffer.ptr = call.before.buffer.ptr /\ size = call.before.size)

\* C18: a write or append called with a pair that breaks (buffer is nullptr) == (size == 0)
\* returns SCUNIT_ERROR_ARGUMENT_OUT_OF_RANGE and leaves buffer and size unchanged.
C18_InvalidPairRejected ==
    (call.op # "none" /\ (call.before.buffer.ptr = nullptr) # (call.before.size = 0)) =>
        /\ call.error = SCUNIT_ERROR_ARGUMENT_OUT_OF_RANGE
        /\ buffer = call.before.buffer
        /\ size = call.before.size

\* an append was called with nullptr and a size that is not 0
C18_Witness ==
    /\ call.op = "append"
    /\ call.before.buffer.ptr = nullptr /\ call.before.size > 0
    /\ call.error = SCUNIT_ERROR_ARGUMENT_OUT_OF_RANGE

\* what the uncolored writer returns for the buffer, size, text and failing realloc of c
Uncolored(c) ==
    IF c.op = "write"
    THEN scunit_vrsnprintf(c.before.buffer, c.before.size, c.text, c.failing)
    ELSE scunit_vrasnprintf(c.before.buffer, c.before.size, c.text, c.failing)

\* the last call was a colored writer with valid colors while colored output was disabled
ColoredWhileDisabled ==
    /\ call.op # "none" /\ call.colored /\ ~call.enabled
    /\ isValidColor(call.colors[1]) /\ isValidColor(call.colors[2])

\* C19: with colored output disabled and valid colors, a colored write or append leaves the
\* buffer and the size, and returns the result code, of the uncolored write or append.
C19_DisabledColorsAreIgnored ==
    ColoredWhileDisabled =>
        /\ buffer = Uncolored(call).buffer
        /\ size = Uncolored(call).size
        /\ call.error = Uncolored(call).error

\* such a colored write has replaced a string by a text
C19_Witness ==
    /\ ColoredWhileDisabled
    /\ call.op = "write" /\ call.error = SCUNIT_ERROR_NONE
    /\ call.text # <<>> /\ Content(call.before.buffer) # <<>>
    /\ Content(buffer) = call.text

\* the last call on the timer was one that its state does not permit
Misused ==
    /\ timerCall.op # "none"
    /\ \/ timerCall.op = "start" /\ timerCall.wasRunning
       \/ timerCall.op = "stop" /\ ~timerCall.wasRunning
       \/ timerCall.op \in {"wallTime", "cpuTime"} /\ timerCall.wasRunning

\* C20: a start of a running timer, a stop of a timer that is not running and a query of the
\* wall or CPU time of a running timer return an error and leave the running flag unchanged.
C20_MisuseRejected ==
    Misused =>
        /\ timerCall.err = IF timerCall.op = "stop" THEN SCUNIT_ERROR_TIMER_NOT_RUNNING
                           ELSE SCUNIT_ERROR_TIMER_RUNNING
        /\ tm.isRunning = timerCall.wasRunning

\* the wall time of a timer was queried a second after its start, before it was stopped
C20_Witness ==
    /\ Misused /\ timerCall.op = "wallTime"
    /\ tm.isRunning /\ tm.wallTimeStartSeconds < clock.wall
    /\ timerCall.err = SCUNIT_ERROR_TIMER_RUNNING

\* the first n draw calls of two callers had the same arguments
SameCalls(a, b, n) ==
    \A k \in 1..n :
        /\ gens[a].calls[k].min = gens[b].calls[k].min
        /\ gens[a].calls[k].max = gens[b].calls[k].max

\* C21: two generators brought to the same seed, made with it or reseeded with it after
\* earlier draws, return the same value at every draw of the same sequence of draw calls
C21_SameSeedSameDraws ==
    \A a, b \in 1..2 :
        (/\ gens[a].rnd # NoRandom /\ gens[b].rnd # NoRandom
         /\ gens[a].rnd.seed = gens[b].rnd.seed)
            => \A n \in 1..MaxDraws :
                   (n <= Len(gens[a].calls) /\ n <= Len(gens[b].calls) /\ SameCalls(a, b, n))
                       => gens[a].calls[n].value = gens[b].calls[n].value

\* one generator made with the seed, the other reseeded with it after earlier draws, both
\* drawn from MaxDraws times over the wide range, not always the same value
C21_Witness ==
    /\ gens[1].rnd # NoRandom /\ gens[2].rnd # NoRandom
    /\ gens[1].rnd.seed = gens[2].rnd.seed
    /\ ~gens[1].earlier /\ gens[2].earlier
    /\ Len(gens[1].calls) = MaxDraws /\ Len(gens[2].calls) = MaxDraws
    /\ SameCalls(1, 2, MaxDraws)
    /\ \A k \in 1..MaxDraws : gens[1].calls[k].max = 1000
    /\ gens[1].calls[1].value # gens[1].calls[2].value
    /\ \A k \in 1..MaxDraws : gens[1].calls[k].value = gens[2].calls[k].value

\* the summaries printed so far: of the suites, of the runs
SuiteSummaryLines == {k \in 1..Len(log) : log[k].kind = "suiteSummary"}
RunSummaryLines == {k \in 1..Len(log) : log[k].kind = "runSummary"}

\* C22: the summary of a suite without tests, and the summary of a run without suites or
\* without tests, report every percentage as 0.00: the quotient is not computed
C22_NoTestsReportZeroPercent ==
    /\ \A k \in SuiteSummaryLines :
           log[k].total = 0 => log[k].percentages = <<0, 0, 0>>
    /\ \A k \in RunSummaryLines :
           /\ log[k].totalSuites = 0 => log[k].suitePercentages = <<0, 0>>
           /\ log[k].totalTests = 0 => log[k].testPercentages = <<0, 0, 0>>

\* a run returned whose suites, one at least, had no test: both summaries were printed
C22_Witness ==
    /\ pc = "returned"
    /\ \E k \in SuiteSummaryLines : log[k].total = 0
    /\ \E k \in RunSummaryLines : log[k].totalSuites > 0 /\ log[k].totalTests = 0

\* the last call was scunit_context_setResult with a value that is no SCUnitResult
UnknownResultSet ==
    /\ cxCall.op = "setResult"
    /\ cxCall.args[1] \notin {SCUNIT_RESULT_PASS, SCUNIT_RESULT_SKIP, SCUNIT_RESULT_FAIL}

\* C23: scunit_context_setResult called with a value outside Pass, Skip, Fail returns
\* SCUNIT_ERROR_ARGUMENT_OUT_OF_RANGE and leaves the result and the message of the context
\* as they were
C23_UnknownResultRejected ==
    UnknownResultSet =>
        /\ cxCall.err = SCUNIT_ERROR_ARGUMENT_OUT_OF_RANGE
        /\ cx.result = cxCall.before.result
        /\ cx.message = cxCall.before.message
        /\ cx.size = cxCall.before.size

\* a value above Fail was rejected by a context that held Skip and a message
C23_Witness ==
    /\ UnknownResultSet
    /\ cxCall.args[1] > SCUNIT_RESULT_FAIL
    /\ cxCall.before.result = SCUNIT_RESULT_SKIP
    /\ Content(cxCall.before.message) = <<"a">>
    /\ cx.result = SCUNIT_RESULT_SKIP
    /\ Content(cx.message) = <<"a">>

\* the positions of the log at which a test teardown was invoked / a status line completed
TestTeardownCalls == {k \in 1..Len(log) : log[k].kind = "testTeardown"}
StatusLines == {k \in 1..Len(log) : log[k].kind = "status"}

\* the status line at position j is the one of the test whose teardown is at position k, and
\* the counters it was printed with count that test: they count as many tests as the suite
\* has had called
StatusOf(j, k) ==
    /\ log[j].suite = log[k].suite
    /\ log[j].test = log[k].test
    /\ log[j].summary.passedTests + log[j].summary.skippedTests + log[j].summary.failedTests
           = Cardinality({a \in TestCalls : a < j /\ log[a].suite = log[k].suite})

\* C24 (as stated): the test teardown of an executed test is invoked after the counters were
\* updated for the test and before the status line of the test is printed.
C24_TeardownBeforeStatusLine ==
    \A k \in TestTeardownCalls : ~\E j \in StatusLines : j < k /\ StatusOf(j, k)

\* C24 (amended): the test teardown of an executed test is invoked after the counters were
\* updated for the test and after the status line of the test was printed, directly after it.
C24_TeardownAfterStatusLine ==
    \A k \in TestTeardownCalls :
        /\ k - 1 \in StatusLines
        /\ StatusOf(k - 1, k)
        /\ ~\E j \in StatusLines : j > k /\ StatusOf(j, k)

\* the teardown of the second test of a suite, a failed one, was invoked
C24_Witness ==
    \E k \in TestTeardownCalls :
        /\ log[k - 1].kind = "status"
        /\ log[k - 1].result = SCUNIT_RESULT_FAIL
        /\ log[k - 1].summary.failedTests = 1
        /\ log[k - 1].summary.passedTests = 1

\* the lines of a file: the characters between its newlines, a last line needing none
RECURSIVE LinesOf(_)
LinesOf(file) ==
    LET newlines == {k \in 1..Len(file) : file[k] = "LF"}
        first == CHOOSE k \in newlines : \A j \in newlines : k <= j
    IN  IF file = <<>> THEN <<>>
        ELSE IF newlines = {} THEN <<file>>
        ELSE <<SubSeq(file, 1, first - 1)>> \o LinesOf(SubSeq(file, first + 1, Len(file)))

\* a text as the colored writers leave it in the message
InColors(foreground, text, enabled) ==
    IF enabled
    THEN COLOR_START(foreground, SCUNIT_COLOR_DARK_DEFAULT) \o text \o COLOR_RESET
    ELSE text

\* the entries of the lines n .. last of a file context around `line`: for each line its
\* number, right-aligned to the width of line + 2, " | ", its text and a newline
RECURSIVE Entries(_, _, _, _, _)
Entries(lines, n, last, line, enabled) ==
    LET width == Len(Digits(line + 2))
        number == <<" ", " ">> \o [k \in 1..(width - Len(Digits(n))) |-> " "] \o Digits(n)
    IN  IF n > last THEN <<>>
        ELSE InColors(SCUNIT_COLOR_DARK_CYAN, number, enabled) \o <<" ", "|", " ">>
                 \o InColors(IF n = line THEN SCUNIT_COLOR_DARK_RED
                                         ELSE SCUNIT_COLOR_DARK_DEFAULT,
                             Append(lines[n], "LF"), enabled)
                 \o Entries(lines, n + 1, last, line, enabled)

\* the last call was a scunit_context_appendFileContext that returned SCUNIT_ERROR_NONE
FileContextAppended ==
    cxCall.op = "appendFileContext" /\ cxCall.err = SCUNIT_ERROR_NONE

\* C25: a successful scunit_context_appendFileContext for line L of a file of N lines
\* appends to the message one entry for each line from max(1, L - 2) to min(L + 2, N), in
\* ascending order and with the text of the line, and no entry for a line after N
C25_FileContextIsTheLinesAround ==
    FileContextAppended =>
        LET lines == LinesOf(cxCall.args[1])
            line == cxCall.args[2]
            first == IF line - 2 > 1 THEN line - 2 ELSE 1
            last == IF line + 2 < Len(lines) THEN line + 2 ELSE Len(lines)
        IN  Content(cx.message)
                = Content(cxCall.before.message)
                      \o Entries(lines, first, last, line, cxCall.enabled)

\* executeSuites has computed the order of this run and is in or after its loop
OrderComputed == pc \in {"suiteLoop", "testLoop", "testCall", "testReturned", "suiteReturned",
                         "returned"}

\* the largest value of (result >> 11) in next(random): 2^53 - 1
MaxFraction == <<255, 255, 255, 255, 255, 255, 31, 0>>

\* C26: with order = Random, whatever the generator draws, the index drawn for the swap
\* with position k lies in 0..k (it is 0 for the smallest and k for the largest value of
\* next(random), checked where the order has just been computed), the order computed is a
\* permutation of the indices of the registered suites, and every suite is executed once:
\* its header is printed once when its turn has come, and not before
C26_RandomOrderIsPermutation ==
    /\ (order = SCUNIT_ORDER_RANDOM /\ pc = "suiteLoop" /\ i = 0) =>
           \A k \in 1..(registeredSuites - 1) :
               ScaleToRange(U64(0), k + 1) = 0 /\ ScaleToRange(MaxFraction, k + 1) = k
    /\ (order = SCUNIT_ORDER_RANDOM /\ OrderComputed) =>
           /\ Len(suiteIndices) = registeredSuites
           /\ \A s \in 0..(registeredSuites - 1) :
                  Cardinality({k \in 1..registeredSuites : suiteIndices[k] = s}) = 1
           /\ \A s \in 1..registeredSuites :
                  Cardinality(HookCalls("suiteHeader", s)) =
                      IF pc = "returned" \/ (\E k \in 1..i : suiteIndices[k] = s - 1)
                             \/ (pc # "suiteLoop" /\ cur = s - 1)
                      THEN 1 ELSE 0

\* a run of MaxRegs - 1 suites or more returned that executed them in an order that is
\* neither the registration order nor its reverse
C26_Witness ==
    /\ order = SCUNIT_ORDER_RANDOM
    /\ pc = "returned"
    /\ registeredSuites >= MaxRegs - 1
    /\ suiteIndices # ReversedIndices(registeredSuites)
    /\ suiteIndices # [k \in 1..registeredSuites |-> k - 1]

\* the suite headers printed and the test functions called by a call of executeSuites
ExecutedSet(r) == {r.executed[k] : k \in 1..Len(r.executed)}

IsAppend(old, new) == Len(new) = Len(old) + 1 /\ SubSeq(new, 1, Len(old)) = old

\* C28: no step removes a registered suite or test, and a registration of a suite or a test
\* that succeeds (the registry has changed, no hook was registered, no error is reported)
\* leaves the collection as it was with the new entry appended at the end: either the
\* suites are the previous suites and one more, or the tests of one suite are its previous
\* tests and one more, with every other suite and the hooks of that suite as they were
C28_RegistrationAppends ==
    [][/\ Len(suites') >= Len(suites)
       /\ \A s \in 1..Len(suites) : Len(suites'[s].tests) >= Len(suites[s].tests)
       /\ (pc = "idle" /\ suites' # suites /\ hookRegs' = hookRegs
              /\ error' = SCUNIT_ERROR_NONE) =>
              \/ IsAppend(suites, suites')
              \/ /\ Len(suites') = Len(suites)
                 /\ \E s \in 1..Len(suites) :
                        /\ IsAppend(suites[s].tests, suites'[s].tests)
                        /\ [suites'[s] EXCEPT !.capacity = 0, !.tests = <<>>]
                               = [suites[s] EXCEPT !.capacity = 0, !.tests = <<>>]
                        /\ \A o \in 1..Len(suites) : o # s => suites'[o] = suites[o]]_vars

\* a registry built by registrations after earlier ones: two suites or more, one of them
\* with two tests or more
C28_Witness ==
    /\ pc = "idle" /\ error = SCUNIT_ERROR_NONE
    /\ Len(suites) >= 2
    /\ \E s \in 1..Len(suites) : Len(suites[s].tests) >= 2

\* 2^k for the capacities a registry of this size can reach
CapacityPowers == {2^k : k \in 0..(MaxRegs + 1)}

\* the capacity of the tests of suite number s changes in this step
CapacityChanges(s) == suites'[s].capacity # suites[s].capacity

\* a registration finds the tests of suite number s full in this step
FoundFull(s) == pc = "idle" /\ Len(suites[s].tests) >= suites[s].capacity

\* the first test of suite number s is registered in this step
FirstRegistered(s) == suites[s].tests = <<>> /\ suites'[s].tests # <<>>

\* C29 (as stated): the capacity of the tests of a suite is 1 after the first successful
\* registration, changes only when a registration finds the collection full, to exactly
\* twice its value, and is a power of two in every suite that has tests.
C29_CapacityDoubles ==
    /\ [](\A s \in 1..Len(suites) :
              suites[s].tests # <<>> => suites[s].capacity \in CapacityPowers)
    /\ [][\A s \in 1..Len(suites) :
              /\ FirstRegistered(s) => suites'[s].capacity = 1
              /\ CapacityChanges(s) =>
                     /\ FoundFull(s)
                     /\ suites'[s].capacity = IF suites[s].capacity = 0 THEN 1
                                              ELSE suites[s].capacity * GROWTH_FACTOR]_vars

\* C29 (amended): the capacity of the tests of a suite is 1 after the first successful
\* registration, changes only when a registration finds the collection full, to twice its
\* value plus one, and is one less than a power of two in every suite.
C29_CapacityDoublesPlusOne ==
    /\ [](\A s \in 1..Len(suites) :
              /\ suites[s].capacity >= Len(suites[s].tests)
              /\ (suites[s].capacity + 1) \in CapacityPowers)
    /\ [][\A s \in 1..Len(suites) :
              /\ FirstRegistered(s) => suites'[s].capacity = 1
              /\ CapacityChanges(s) =>
                     /\ FoundFull(s)
                     /\ suites'[s].capacity = (suites[s].capacity * GROWTH_FACTOR) + 1
              /\ (FoundFull(s) /\ Len(suites'[s].tests) > Len(suites[s].tests))
                     => CapacityChanges(s)]_vars

\* a suite whose tests were found full by a registration after the first: its capacity has
\* grown from 1
C29_Witness ==
    \E s \in 1..Len(suites) : Len(suites[s].tests) >= 2 /\ suites[s].capacity > 1

\* the smallest of base, base * GROWTH_FACTOR, base * GROWTH_FACTOR^2, .. that is at least
\* `required`
SmallestCapacity(base, required) ==
    LET caps == {base * (GROWTH_FACTOR^k) : k \in 0..(MaxText + INITIAL_BUFFER_SIZE)}
        fit == {c \in caps : c >= required}
    IN  CHOOSE c \in fit : \A d \in fit : c <= d

\* the bytes the string the buffer holds requires, its terminator included
RequiredBytes == Len(Content(buffer)) + 1

\* the last call was a write or an append, colored or not, and returned SCUNIT_ERROR_NONE
WriterSucceeded == call.op \in {"write", "append"} /\ call.error = SCUNIT_ERROR_NONE

\* C30 (as stated): after a successful write or append the reported size of the buffer is the
\* smallest power of the growth factor that is at least the bytes the content and its
\* terminator require.
C30_SizeIsSmallestPower ==
    WriterSucceeded => size = SmallestCapacity(1, RequiredBytes)

\* C30 (amended): after a successful write or append the reported size of the buffer is the
\* smallest of the size before the call and its products with the powers of the growth
\* factor that is at least the bytes the content and its terminator require, where the size
\* before the call of a buffer that was empty counts as the smallest power of the growth
\* factor that is at least the initial buffer size. A buffer that was large enough keeps its
\* size.
C30_SizeIsSmallestGrowth ==
    WriterSucceeded =>
        LET base == IF call.before.size = 0 THEN SmallestCapacity(1, INITIAL_BUFFER_SIZE)
                    ELSE call.before.size
        IN  /\ size = SmallestCapacity(base, RequiredBytes)
            /\ size = Len(buffer.mem)
            /\ (call.before.size >= RequiredBytes) => size = call.before.size

\* a successful call had to grow a buffer that was not empty, after a call that had created
\* it, to a size that is not the smallest power that fits
C30_Witness ==
    /\ WriterSucceeded
    /\ call.before.size > 0 /\ size > call.before.size
    /\ size > SmallestCapacity(1, RequiredBytes)

\* the last call was a query of the wall or CPU time and returned SCUNIT_ERROR_NONE
QuerySucceeded ==
    timerCall.op \in {"wallTime", "cpuTime"} /\ timerCall.err = SCUNIT_ERROR_NONE

\* C31: a query of the wall or CPU time succeeds only on a timer that a stop call has stopped
\* since it was last started; on a timer that was never started and stopped it fails.
C31_QueryNeedsStop ==
    QuerySucceeded => timerCall.stopped

\* the timers and the context the run of the suite named s acquired, released, and released
\* through a pointer that was never assigned, each in the order of the log
ResourceEvents(kinds, s) ==
    LET at == SelectSeq([k \in 1..Len(log) |-> k],
                        LAMBDA k : log[k].kind \in kinds /\ log[k].suite = s)
    IN  [k \in 1..Len(at) |-> log[at[k]].fn]

\* suite_run has returned an error, or has crashed on its way out, for the current suite
SuiteRunUnwound ==
    \/ pc = "suiteReturned" /\ error # SCUNIT_ERROR_NONE
    \/ pc = "crashed"

\* C32: when a suite run ends with a fatal error, it has released exactly what it had
\* acquired of the suite timer, the test timer and the context, each once and in the reverse
\* of the order of acquisition, and has released nothing that it had not acquired.
C32_CleanupInReverseOrder ==
    SuiteRunUnwound =>
        LET acquired == ResourceEvents({"new"}, cur + 1)
            released == ResourceEvents({"free", "freeUninitialised"}, cur + 1)
        IN  /\ ResourceEvents({"freeUninitialised"}, cur + 1) = <<>>
            /\ Len(released) = Len(acquired)
            /\ \A k \in 1..Len(acquired) : released[k] = acquired[Len(acquired) + 1 - k]

\* the last call was a scunit_context_appendFileContext that opened the file
FileOpened ==
    /\ cxCall.op = "appendFileContext"
    /\ cxCall.err \notin {SCUNIT_ERROR_ARGUMENT_OUT_OF_RANGE, SCUNIT_ERROR_OPENING_STREAM_FAILED}

\* C33: once the file is open, scunit_context_appendFileContext returns the first error that
\* occurred: the error of a failed read or append whether or not fclose fails as well, and
\* SCUNIT_ERROR_CLOSING_STREAM_FAILED only when every read and append succeeded
C33_FirstErrorIsReturned ==
    FileOpened =>
        /\ cxCall.first \in {SCUNIT_ERROR_NONE, SCUNIT_ERROR_READING_STREAM_FAILED,
                              SCUNIT_ERROR_OUT_OF_MEMORY}
        /\ cxCall.first # SCUNIT_ERROR_NONE => cxCall.err = cxCall.first
        /\ cxCall.err = SCUNIT_ERROR_CLOSING_STREAM_FAILED
               <=> cxCall.first = SCUNIT_ERROR_NONE /\ ~cxCall.args[3]

\* a read or an append failed and fclose failed as well
C33_Witness ==
    /\ FileOpened
    /\ ~cxCall.args[3]
    /\ cxCall.first \in {SCUNIT_ERROR_READING_STREAM_FAILED, SCUNIT_ERROR_OUT_OF_MEMORY}

\* the suites whose summary, as scunit_suite_run returned it, has a failed test / has none
SuitesWithFailure ==
    {s \in 1..registeredSuites :
         suiteSummaries[s] # NoSummary /\ suiteSummaries[s].failedTests > 0}
SuitesWithoutFailure ==
    {s \in 1..registeredSuites :
         suiteSummaries[s] # NoSummary /\ suiteSummaries[s].failedTests = 0}

\* C34: the summary of the run counts as failed exactly the suites whose own summary has at
\* least one failed test and as passed exactly the others, so that the passed and the failed
\* suites add up to the registered suites
C34_SuiteFailsIffATestFailed ==
    \A k \in RunSummaryLines :
        /\ log[k].failedSuites = Cardinality(SuitesWithFailure)
        /\ log[k].passedSuites = Cardinality(SuitesWithoutFailure)
        /\ log[k].passedSuites + log[k].failedSuites = registeredSuites
        /\ log[k].totalSuites = registeredSuites

\* a run summary of a suite with a failed test and a suite that only skipped
C34_Witness ==
    /\ RunSummaryLines # {}
    /\ SuitesWithFailure # {}
    /\ \E s \in SuitesWithoutFailure : suiteSummaries[s].skippedTests > 0

\* positions of the log at which a test function or a hook was called
CallablePositions ==
    {k \in 1..Len(log) :
         log[k].kind \in {"setup", "testSetup", "test", "testTeardown", "teardown"}}

\* C35: the test functions and hooks are called one after the other, each by the run of its
\* own suite, and the runs of the suites do not interleave: every call belongs to the suite
\* whose run began last, and when the run of a suite begins, every test of every suite whose
\* run began before has been called and its registered suite teardown invoked
C35_SuitesDoNotInterleave ==
    /\ \A k \in CallablePositions :
           \E h \in SuiteHeaders :
               /\ h < k
               /\ log[h].suite = log[k].suite
               /\ \A g \in SuiteHeaders : g < k => g <= h
    /\ \A g \in SuiteHeaders, h \in SuiteHeaders :
           g < h =>
               LET s == log[g].suite
               IN  /\ s # log[h].suite
                   /\ \A t \in 1..registeredTests(suites[s]) :
                          \E k \in TestCalls :
                              log[k].suite = s /\ log[k].test = t /\ g < k /\ k < h
                   /\ suites[s].teardown # nullptr =>
                          \E k \in CallablePositions :
                              /\ log[k].kind = "teardown" /\ log[k].suite = s
                              /\ g < k /\ k < h

\* the runs of two suites with hooks or tests, the second of them begun
C35_Witness ==
    \E g \in SuiteHeaders, h \in SuiteHeaders, a \in CallablePositions, b \in CallablePositions :
        /\ g < a /\ a < h /\ h < b
        /\ log[a].suite = log[g].suite
        /\ log[b].suite = log[h].suite

\* a registration returns SCUNIT_ERROR_OUT_OF_MEMORY in this step
RegistrationOutOfMemory ==
    pc = "idle" /\ pc' = "idle" /\ error' = SCUNIT_ERROR_OUT_OF_MEMORY

\* C36 (as stated): a scunit_suite_registerTest that returns SCUNIT_ERROR_OUT_OF_MEMORY leaves
\* the suite exactly as it was: its registered tests, their number and its capacity.
C36_OutOfMemoryLeavesSuite ==
    [][RegistrationOutOfMemory => suites' = suites]_vars

\* C36 (amended): a scunit_suite_registerTest that returns SCUNIT_ERROR_OUT_OF_MEMORY leaves
\* the registered tests of the suite, their number and its hooks as they were, and its
\* capacity too unless the collection was full and only the copy of the name failed: then
\* the capacity is the grown one, twice the previous capacity plus one.
C36_OutOfMemoryLeavesTests ==
    [][RegistrationOutOfMemory =>
           /\ Len(suites') = Len(suites)
           /\ \A s \in 1..Len(suites) :
                  /\ [suites'[s] EXCEPT !.capacity = suites[s].capacity] = suites[s]
                  /\ CapacityChanges(s) =>
                         /\ FoundFull(s)
                         /\ suites'[s].capacity = (suites[s].capacity * GROWTH_FACTOR) + 1]_vars

\* a registration of a test has failed on the copy of the name after the collection had
\* grown: a suite has more capacity than the registrations that succeeded gave it
C36_Witness ==
    /\ pc = "idle"
    /\ error = SCUNIT_ERROR_OUT_OF_MEMORY
    /\ \E s \in 1..Len(suites) :
           /\ Len(suites[s].tests) = 1
           /\ suites[s].capacity = (1 * GROWTH_FACTOR) + 1

C38_TimerCallsInOrder ==
    /\ error \notin {SCUNIT_ERROR_TIMER_RUNNING, SCUNIT_ERROR_TIMER_NOT_RUNNING}
    /\ pc = "testLoop" => testTimer.allocated /\ ~testTimer.isRunning
    /\ pc \in {"testCall", "testReturned"} => testTimer.allocated /\ testTimer.isRunning
    /\ pc \in {"testLoop", "testCall", "testReturned"} =>
           suiteTimer.allocated /\ suiteTimer.isRunning
    /\ pc \in {"suiteLoop", "testLoop", "testCall", "testReturned", "suiteReturned"} =>
           timer.allocated /\ timer.isRunning

\* the test timer, stopped after the first test of a suite, is running again for the second
C38_Witness ==
    /\ pc = "testReturned"
    /\ ti >= 1
    /\ testTimer.isRunning

\* C39: the result suite_run reads from the context after a test function has returned is
\* Pass, Skip or Fail, whatever the test function did with the context, so that suite_run
\* never returns SCUNIT_ERROR_UNKNOWN_RESULT
C39_ResultIsKnown ==
    /\ error # SCUNIT_ERROR_UNKNOWN_RESULT
    /\ pc \in {"testLoop", "testCall", "testReturned"} =>
           context.result \in {SCUNIT_RESULT_PASS, SCUNIT_RESULT_SKIP, SCUNIT_RESULT_FAIL}

\* a test function has returned after a test that failed: the result is Pass again or what
\* this test function has set
C39_Witness ==
    /\ pc = "testReturned"
    /\ ti >= 1
    /\ \E t \in DOMAIN testState[cur + 1] : testState[cur + 1][t] = "Failed"

====
